---- MODULE Spec2Model ----
(***************************************************************************)
(* Model of the device model of the SDK (lib/models/device.js).  Every     *)
(* exported method is one action: the whole promise chain of the method,   *)
(* the requests it sends to the API through pine and request.send          *)
(* included, is taken in one step.  The remote store (the devices the API  *)
(* holds) is the state the methods read and write; the outcome of the last *)
(* call (the promise it returned, the Node-style callback invocations it   *)
(* made and the requests it sent) is recorded so that properties of a      *)
(* call are state predicates.                                              *)
(***************************************************************************)
EXTENDS Integers, Sequences, FiniteSets, TLC

VARIABLES
    devices,    \* the device resources held by the API
    osUpdateHelper, \* the memoized getOsUpdateHelper(): "unset", "ready", "failed"
    op,         \* name of the last method called ("none" initially)
    args,       \* the arguments of the last call
    net,        \* what the transport did during the last call
    promise,    \* the promise the last call returned, settled
    cbCalls,    \* the invocations of the caller's callback, in order
    sent,       \* the requests the last call issued, in order
    harness     \* the integration test harness (tests/integration/setup.coffee)

vars == <<devices, osUpdateHelper, op, args, net, promise, cbCalls, sent, harness>>

(***************************************************************************)
(* Bounds of the model.                                                    *)
(***************************************************************************)
MaxDevices == 3     \* devices in the store that the queries read
MaxActionDevices == 2   \* devices in the store that the actions act on
UuidLen == 2        \* length of a full uuid

(***************************************************************************)
(* JavaScript values that reach the methods as arguments.                  *)
(***************************************************************************)
Undefined == [t |-> "undefined", n |-> 0, s |-> <<>>]
Null == [t |-> "null", n |-> 0, s |-> <<>>]
Fn == [t |-> "function", n |-> 0, s |-> <<>>]
Obj == [t |-> "object", n |-> 0, s |-> <<>>]
Num(n) == [t |-> "number", n |-> n, s |-> <<>>]
Str(s) == [t |-> "string", n |-> 0, s |-> s]

\* The characters of a uuid.  Digits, so that the string "1" and the id 1
\* are different values that look alike.
Chars == {"1", "2"}

RECURSIVE StringsOfLen(_)
StringsOfLen(k) ==
    IF k = 0 THEN {<<>>}
    ELSE {Append(s, c) : s \in StringsOfLen(k - 1), c \in Chars}

FullUuids == StringsOfLen(UuidLen)
UuidStrings == UNION {StringsOfLen(k) : k \in 0..UuidLen}

\* String.prototype.startsWith, as the API's $startswith filter applies it
StartsWith(s, prefix) ==
    /\ Len(prefix) <= Len(s)
    /\ SubSeq(s, 1, Len(prefix)) = prefix

DigitValue(c) == IF c = "1" THEN 1 ELSE 2

RECURSIVE UuidCode(_)
UuidCode(s) ==
    IF s = <<>> THEN 0
    ELSE 3 * UuidCode(SubSeq(s, 1, Len(s) - 1)) + DigitValue(s[Len(s)])

\* String(n) for the ids of the model
StringOf(n) == IF n = 1 THEN <<"1">> ELSE IF n = 2 THEN <<"2">> ELSE <<"x">>

(***************************************************************************)
(* Promises and errors.                                                    *)
(***************************************************************************)
NoError == [name |-> "none", statusCode |-> 0]
Err(name) == [name |-> name, statusCode |-> 0]
RequestError(code) == [name |-> "BalenaRequestError", statusCode |-> code]

Fulfil(v) == [state |-> "fulfilled", value |-> v, error |-> NoError]
Reject(e) == [state |-> "rejected", value |-> Undefined, error |-> e]
Pending == [state |-> "pending", value |-> Undefined, error |-> NoError]

IsFulfilled(p) == p.state = "fulfilled"
IsRejected(p) == p.state = "rejected"
RejectedWith(p, name) == p.state = "rejected" /\ p.error.name = name

\* promise.asCallback(callback): a function is called once the promise
\* settles, anything else is ignored
AsCallback(p, callback) ==
    IF callback.t = "function" THEN <<p>> ELSE <<>>

(***************************************************************************)
(* The transport.  What each kind of request of a call meets: pine         *)
(* queries and the application model's lookup succeed or fail, and a       *)
(* request.send is answered with an HTTP status code.                      *)
(***************************************************************************)
LOCKED_STATUS_CODE == 423

StatusOk == 200
ErrorStatusCodes == {400, 404, LOCKED_STATUS_CODE, 500}

\* pine: the call's device lookup; pine2: its second pine query
\* os: the OS model's getSupportedVersions; hup: whether getHUPActionType
\* allows the update; helper: the status the OS update service answers with
NetOk == [pine |-> TRUE, pine2 |-> TRUE, app |-> TRUE, send |-> StatusOk,
          helper |-> StatusOk, config |-> TRUE, os |-> TRUE, hup |-> TRUE]

(***************************************************************************)
(* The resources.                                                          *)
(***************************************************************************)
DeviceIds == 1..MaxDevices

\* The applications the API holds; they do not change in the model.
Applications ==
    { [id |-> 1, app_name |-> <<"A">>, slug |-> <<"a">>, device_type |-> "raspberrypi3"],
      [id |-> 2, app_name |-> <<"B">>, slug |-> <<"b">>, device_type |-> "raspberry-pi"],
      [id |-> 3, app_name |-> <<"C">>, slug |-> <<"c">>, device_type |-> "intel-nuc"],
      [id |-> 4, app_name |-> <<"D">>, slug |-> <<"d">>, device_type |-> "retired-board"] }

AppIds == {a.id : a \in Applications}

\* The device types the API's configuration lists
\* (configModel().getDeviceTypes())
DeviceTypes ==
    { [slug |-> "raspberry-pi", arch |-> "rpi", isDependent |-> FALSE],
      [slug |-> "raspberrypi3", arch |-> "armv7hf", isDependent |-> FALSE],
      [slug |-> "raspberrypi4-64", arch |-> "aarch64", isDependent |-> FALSE],
      [slug |-> "intel-nuc", arch |-> "amd64", isDependent |-> FALSE] }

\* The type of the device with a given id, and the application it starts in
DeviceTypeOfId(id) ==
    CASE id % 4 = 1 -> "raspberrypi3"
      [] id % 4 = 2 -> "raspberry-pi"
      [] id % 4 = 3 -> "raspberrypi4-64"
      [] OTHER -> "intel-nuc"

AppOfId(id) ==
    CASE id % 4 = 1 -> 1
      [] id % 4 = 2 -> 2
      [] id % 4 = 3 -> 1
      [] OTHER -> 3

\* A device resource with the fields the methods read
MkDevice(id, uuid) ==
    [id |-> id, uuid |-> uuid,
     belongs_to__application |-> AppOfId(id),
     is_managed_by__device |-> IF id > 1 THEN 1 ELSE 0,
     device_type |-> DeviceTypeOfId(id),
     supervisor_version |-> "7.0.0",
     is_online |-> TRUE,
     os_version |-> "balenaOS 2.29.2+rev1",
     os_variant |-> "prod"]

\* Arguments of a call: the i-th one, undefined when it was not passed
Arg(a, i) == IF i <= Len(a) THEN a[i] ELSE Undefined

\* util.isId (lodash isNumber)
isId(v) == v.t = "number"

\* util.findCallback: the last argument when it is a function
findCallback(a) ==
    IF Len(a) > 0 /\ a[Len(a)].t = "function" THEN a[Len(a)] ELSE Undefined

\* util.normalizeDeviceOsVersion, applied by addExtraInfo
normalizeDeviceOsVersion(d) ==
    IF "os_version" \in DOMAIN d /\ "os_variant" \in DOMAIN d
       /\ d.os_version = "" /\ d.os_variant # ""
    THEN [d EXCEPT !.os_version = "Resin OS 1.0.0-pre"]
    ELSE d

addExtraInfo(device) == normalizeDeviceOsVersion(device)

\* $select: the fields of the resource the API returns ({} selects all)
Select(d, fields) ==
    IF fields = {} THEN d ELSE [f \in fields |-> d[f]]

(***************************************************************************)
(* exports.get                                                             *)
(***************************************************************************)
\* pine.get of one device by id: the device, or undefined
PineGetById(devs, id, fields, nt) ==
    IF ~nt.pine THEN Reject(RequestError(500))
    ELSE IF \E d \in devs : d.id = id
         THEN Fulfil(Select(CHOOSE d \in devs : d.id = id, fields))
         ELSE Fulfil(Undefined)

\* pine.get of the devices whose uuid starts with a prefix
PineGetByUuidPrefix(devs, prefix, fields, nt) ==
    IF ~nt.pine THEN Reject(RequestError(500))
    ELSE Fulfil({Select(d, fields) : d \in {e \in devs : StartsWith(e.uuid, prefix)}})

GetByIdMutant(devs, uuidOrId, fields, nt) ==
    LET q == PineGetByUuidPrefix(devs, StringOf(uuidOrId.n), fields, nt) IN
    IF IsRejected(q) THEN q
    ELSE IF q.value = {} THEN Reject(Err("BalenaDeviceNotFound"))
    ELSE Fulfil(CHOOSE d \in q.value : TRUE)

GetById(devs, uuidOrId, fields, nt) ==
    LET q == PineGetById(devs, uuidOrId.n, fields, nt) IN
    IF IsRejected(q) THEN q
    ELSE IF "t" \in DOMAIN q.value THEN Reject(Err("BalenaDeviceNotFound"))
    ELSE q

GetByUuidMutant(devs, uuidOrId, fields, nt) ==
    LET q == PineGetByUuidPrefix(devs, uuidOrId.s, fields, nt) IN
    IF IsRejected(q) THEN q
    ELSE IF Cardinality(q.value) = 0 THEN Reject(Err("BalenaDeviceNotFound"))
    ELSE Fulfil(CHOOSE d \in q.value : TRUE)

GetByUuid(devs, uuidOrId, fields, nt) ==
    LET q == PineGetByUuidPrefix(devs, uuidOrId.s, fields, nt) IN
    IF IsRejected(q) THEN q
    ELSE IF Cardinality(q.value) = 0 THEN Reject(Err("BalenaDeviceNotFound"))
    ELSE IF Cardinality(q.value) > 1 THEN Reject(Err("BalenaAmbiguousDevice"))
    ELSE Fulfil(CHOOSE d \in q.value : TRUE)

\* A request as the transport sees it
Req(kind, target, data) == [req |-> kind, target |-> target, data |-> data]

\* The requests exports.get issues: none for a null or undefined uuidOrId
getSent(uuidOrId) ==
    IF uuidOrId.t \in {"undefined", "null"} THEN <<>>
    ELSE <<Req("pine.get", "device", uuidOrId)>>

\* The promise of exports.get(uuidOrId, {$select: fields}), before asCallback
get(devs, uuidOrId, fields, nt) ==
    LET found ==
            IF uuidOrId.t \in {"undefined", "null"}
            THEN Reject(Err("BalenaDeviceNotFound"))
            ELSE IF isId(uuidOrId) THEN GetById(devs, uuidOrId, fields, nt)
            ELSE GetByUuid(devs, uuidOrId, fields, nt)
    IN  IF IsFulfilled(found) THEN Fulfil(addExtraInfo(found.value)) ELSE found

(***************************************************************************)
(* exports.has                                                             *)
(***************************************************************************)
HasMutant(devs, uuidOrId, nt) ==
    LET g == get(devs, uuidOrId, {"id"}, nt) IN
    IF IsFulfilled(g) THEN Fulfil(TRUE) ELSE g

has(devs, uuidOrId, nt) ==
    LET g == get(devs, uuidOrId, {"id"}, nt) IN
    IF IsFulfilled(g) THEN Fulfil(TRUE)
    ELSE IF g.error.name = "BalenaDeviceNotFound" THEN Fulfil(FALSE)
    ELSE g

(***************************************************************************)
(* The application model's get (lib/models/application.js)                 *)
(***************************************************************************)
AppMatches(nameOrSlugOrId) ==
    IF isId(nameOrSlugOrId)
    THEN {a \in Applications : a.id = nameOrSlugOrId.n}
    ELSE {a \in Applications :
            a.app_name = nameOrSlugOrId.s \/ a.slug = nameOrSlugOrId.s}

applicationGet(nameOrSlugOrId, fields, nt) ==
    IF nameOrSlugOrId.t \in {"undefined", "null"}
    THEN Reject(Err("BalenaApplicationNotFound"))
    ELSE IF ~nt.app THEN Reject(RequestError(500))
    ELSE IF AppMatches(nameOrSlugOrId) = {}
    THEN Reject(Err("BalenaApplicationNotFound"))
    ELSE IF Cardinality(AppMatches(nameOrSlugOrId)) > 1
    THEN Reject(Err("BalenaAmbiguousApplication"))
    ELSE Fulfil(Select(CHOOSE a \in AppMatches(nameOrSlugOrId) : TRUE, fields))

(***************************************************************************)
(* exports.getAll, getAllByApplication, getAllByParentDevice               *)
(***************************************************************************)
\* The requests applicationModel().get issues
applicationGetSent(nameOrSlugOrId) ==
    IF nameOrSlugOrId.t \in {"undefined", "null"} THEN <<>>
    ELSE <<Req("pine.get", "application", nameOrSlugOrId)>>

\* The outcome of a call: the promise returned, the callback invocations
\* and the requests issued
Outcome(p, cb, rq) == [p |-> p, cb |-> cb, sent |-> rq]

\* getAll called with arguments a; found: the devices of the store that the
\* $filter of its options selects; ok: whether its pine query succeeds
getAll(found, a, ok) ==
    LET callback == findCallback(a)
        q == IF ok
             THEN Fulfil({addExtraInfo(d) : d \in found})
             ELSE Reject(RequestError(500))
    IN  Outcome(q, AsCallback(q, callback), <<Req("pine.get", "device", Undefined)>>)

getAllByApplication(devs, a, nt) ==
    LET callback == findCallback(a)
        app == applicationGet(Arg(a, 1), {"id"}, nt)
        all == getAll({d \in devs : d.belongs_to__application = app.value.id},
                      <<Obj, callback>>, nt.pine)
    IN  IF IsFulfilled(app)
        THEN Outcome(all.p, all.cb, applicationGetSent(Arg(a, 1)) \o all.sent)
        ELSE Outcome(app, <<>>, applicationGetSent(Arg(a, 1)))

getAllByParentDevice(devs, a, nt) ==
    LET callback == findCallback(a)
        parent == get(devs, Arg(a, 1), {"id"}, nt)
        all == getAll({d \in devs : d.is_managed_by__device = parent.value.id},
                      <<Obj, callback>>, nt.pine2)
    IN  IF IsFulfilled(parent)
        THEN Outcome(all.p, all.cb, getSent(Arg(a, 1)) \o all.sent)
        ELSE Outcome(parent, <<>>, getSent(Arg(a, 1)))

(***************************************************************************)
(* Dependent resources of a device (util/dependent-resource.js): tags and  *)
(* config variables, and their getAllByApplication                         *)
(***************************************************************************)
\* The tags and config variables the API holds for the devices
DeviceTags ==
    {[device |-> i, tag_key |-> "role", value |-> "edge"] : i \in DeviceIds}

DeviceConfigVars ==
    {[device |-> i, name |-> "BALENA_HOST_CONFIG_gpu_mem", value |-> "16"] :
        i \in DeviceIds}

\* buildDependentResource(...).getAll; owners: the devices of the store
\* that the filter on the owning device selects
dependentGetAll(resources, owners, ok) ==
    IF ok
    THEN Fulfil({r \in resources : \E d \in owners : d.id = r.device})
    ELSE Reject(RequestError(500))

tagsGetAllByApplication(devs, a, nt) ==
    LET callback == Arg(a, 3)
        app == applicationGet(Arg(a, 1), {"id"}, nt)
        p == IF IsFulfilled(app)
             THEN dependentGetAll(DeviceTags,
                    {d \in devs : d.belongs_to__application = app.value.id}, nt.pine)
             ELSE app
    IN  Outcome(p, AsCallback(p, callback),
                applicationGetSent(Arg(a, 1)) \o
                (IF IsFulfilled(app)
                 THEN <<Req("pine.get", "device_tag", Undefined)>> ELSE <<>>))

configVarGetAllByApplication(devs, a, nt) ==
    LET callback == findCallback(a)
        app == applicationGet(Arg(a, 1), {"id"}, nt)
        p == IF IsFulfilled(app)
             THEN dependentGetAll(DeviceConfigVars,
                    {d \in devs : d.belongs_to__application = app.value.id}, nt.pine)
             ELSE app
    IN  Outcome(p, AsCallback(p, callback),
                applicationGetSent(Arg(a, 1)) \o
                (IF IsFulfilled(app)
                 THEN <<Req("pine.get", "device_config_variable", Undefined)>>
                 ELSE <<>>))

(***************************************************************************)
(* The calls a client makes.                                               *)
(***************************************************************************)
\* The ways of passing the optional options object and callback after x
CallForms(x) == {<<x>>, <<x, Obj>>, <<x, Fn>>, <<x, Obj, Fn>>}

DeviceArgs ==
    {Null} \cup {Num(i) : i \in 0..(MaxDevices + 1)} \cup {Str(s) : s \in UuidStrings}

AppArgs ==
    {Null} \cup {Num(i) : i \in 1..5} \cup {Str(<<"A">>), Str(<<"b">>), Str(<<"Z">>)}

\* Transports that differ from the faultless one in the given requests
Nets(fields) ==
    {[f \in DOMAIN NetOk |->
        IF f \in fields /\ f \in bad THEN FALSE ELSE NetOk[f]] :
     bad \in SUBSET fields}

\* A call that only reads: the store is left alone
Returns(name, a, nt, out) ==
    /\ op' = name
    /\ args' = a
    /\ net' = nt
    /\ promise' = out.p
    /\ cbCalls' = out.cb
    /\ sent' = out.sent
    /\ UNCHANGED <<devices, osUpdateHelper, harness>>

\* No call is in progress
Idle == op = "none"

\* The SDK is used without the integration test harness
NotLoaded == "not loaded"

NoCall ==
    /\ op = "none"
    /\ args = <<>>
    /\ net = NetOk
    /\ promise = Pending
    /\ cbCalls = <<>>
    /\ sent = <<>>
    /\ osUpdateHelper = "unset"
    /\ harness = NotLoaded

\* The client has seen the outcome of its call and is ready for the next
Forget ==
    /\ op # "none"
    /\ op' = "none"
    /\ args' = <<>>
    /\ net' = NetOk
    /\ promise' = Pending
    /\ cbCalls' = <<>>
    /\ sent' = <<>>
    /\ UNCHANGED <<devices, osUpdateHelper, harness>>

Get ==
    /\ Idle
    /\ \E x \in DeviceArgs : \E a \in CallForms(x) : \E nt \in Nets({"pine"}) :
        LET p == get(devices, x, {}, nt) IN
        Returns("get", a, nt, Outcome(p, AsCallback(p, findCallback(a)), getSent(x)))

Has ==
    /\ Idle
    /\ \E x \in DeviceArgs : \E a \in {<<x>>, <<x, Fn>>} : \E nt \in Nets({"pine"}) :
        LET p == has(devices, x, nt) IN
        Returns("has", a, nt, Outcome(p, AsCallback(p, Arg(a, 2)), getSent(x)))

GetAll ==
    /\ Idle
    /\ \E a \in {<<>>, <<Obj>>, <<Fn>>, <<Obj, Fn>>} : \E nt \in Nets({"pine"}) :
        Returns("getAll", a, nt, getAll(devices, a, nt.pine))

GetAllByApplication ==
    /\ Idle
    /\ \E x \in AppArgs : \E a \in CallForms(x) : \E nt \in Nets({"app", "pine"}) :
        Returns("getAllByApplication", a, nt, getAllByApplication(devices, a, nt))

GetAllByParentDevice ==
    /\ Idle
    /\ \E x \in DeviceArgs : \E a \in CallForms(x) : \E nt \in Nets({"pine", "pine2"}) :
        Returns("getAllByParentDevice", a, nt, getAllByParentDevice(devices, a, nt))

TagsGetAllByApplication ==
    /\ Idle
    /\ \E x \in AppArgs : \E a \in CallForms(x) : \E nt \in Nets({"app", "pine"}) :
        Returns("tags.getAllByApplication", a, nt,
                tagsGetAllByApplication(devices, a, nt))

ConfigVarGetAllByApplication ==
    /\ Idle
    /\ \E x \in AppArgs : \E a \in CallForms(x) : \E nt \in Nets({"app", "pine"}) :
        Returns("configVar.getAllByApplication", a, nt,
                configVarGetAllByApplication(devices, a, nt))

(***************************************************************************)
(* The stores.                                                             *)
(***************************************************************************)
\* The devices with the uuids U, ids given in the order of the uuids
\* (ascending or descending)
StoreOf(U, ascending) ==
    {MkDevice(IF ascending
              THEN 1 + Cardinality({v \in U : UuidCode(v) < UuidCode(u)})
              ELSE 1 + Cardinality({v \in U : UuidCode(v) > UuidCode(u)}),
              u) : u \in U}

Stores ==
    {StoreOf(U, asc) :
        U \in {V \in SUBSET FullUuids : Cardinality(V) <= MaxDevices},
        asc \in BOOLEAN}

\* Queries of the store
InitQuery == devices \in Stores /\ NoCall

NextQuery ==
    \/ Get
    \/ Has
    \/ GetAll
    \/ GetAllByApplication
    \/ GetAllByParentDevice
    \/ TagsGetAllByApplication
    \/ ConfigVarGetAllByApplication
    \/ Forget

SpecQuery == InitQuery /\ [][NextQuery]_vars

(***************************************************************************)
(* exports.move                                                            *)
(***************************************************************************)
\* util.deviceTypes.getBySlug: the device type with the slug, if listed
getBySlug(deviceTypes, slug) == {t \in deviceTypes : t.slug = slug}

\* util.deviceTypes.isOsArchitectureCompatibleWith
isOsArchitectureCompatibleWith(osArch, appArch) ==
    \/ osArch = appArch
    \/ osArch = "aarch64" /\ appArch \in {"armv7hf", "rpi"}
    \/ osArch = "armv7hf" /\ appArch = "rpi"

\* util.deviceTypes.isDeviceTypeCompatibleWith
isDeviceTypeCompatibleWith(osDeviceType, targetAppDeviceType) ==
    /\ isOsArchitectureCompatibleWith(osDeviceType.arch, targetAppDeviceType.arch)
    /\ osDeviceType.isDependent = targetAppDeviceType.isDependent

\* pine.patch of the devices with a uuid
PinePatchByUuid(devs, uuid, field, value) ==
    {IF d.uuid = uuid THEN [d EXCEPT ![field] = value] ELSE d : d \in devs}

\* What a call that may write leaves behind
Effect(p, rq, devs) == [p |-> p, sent |-> rq, devices |-> devs]

\* The step of move that follows the three lookups
MoveCheckedMutant(devs, device, deviceTypes, application, nt) ==
    LET patch == Req("pine.patch", "device",
                     [uuid |-> device.uuid,
                      belongs_to__application |-> application.id])
    IN  IF nt.pine2
        THEN Effect(Fulfil("OK"), <<patch>>,
                    PinePatchByUuid(devs, device.uuid,
                                    "belongs_to__application", application.id))
        ELSE Effect(Reject(RequestError(500)), <<patch>>, devs)

MoveChecked(devs, device, deviceTypes, application, nt) ==
    LET osDeviceType == getBySlug(deviceTypes, device.device_type)
        targetAppDeviceType == getBySlug(deviceTypes, application.device_type)
        patch == Req("pine.patch", "device",
                     [uuid |-> device.uuid,
                      belongs_to__application |-> application.id])
    IN  IF osDeviceType = {} \/ targetAppDeviceType = {}
        THEN Effect(Reject(Err("BalenaInvalidDeviceType")), <<>>, devs)
        ELSE IF ~isDeviceTypeCompatibleWith(CHOOSE t \in osDeviceType : TRUE,
                                            CHOOSE t \in targetAppDeviceType : TRUE)
        THEN Effect(Reject(Err("BalenaInvalidDeviceType")), <<>>, devs)
        ELSE IF nt.pine2
        THEN Effect(Fulfil("OK"), <<patch>>,
                    PinePatchByUuid(devs, device.uuid,
                                    "belongs_to__application", application.id))
        ELSE Effect(Reject(RequestError(500)), <<patch>>, devs)

\* The outcomes of move(uuidOrId, applicationNameOrSlugOrId): Promise.props
\* rejects with whichever of its lookups rejects first
move(devs, uuidOrId, applicationNameOrSlugOrId, nt) ==
    LET device == get(devs, uuidOrId, {"uuid", "device_type"}, nt)
        deviceTypes == IF nt.config THEN Fulfil(DeviceTypes)
                       ELSE Reject(RequestError(500))
        application == applicationGet(applicationNameOrSlugOrId,
                                      {"id", "device_type"}, nt)
        lookups == getSent(uuidOrId) \o <<Req("config.getDeviceTypes", "config", Undefined)>>
                   \o applicationGetSent(applicationNameOrSlugOrId)
        props == <<device, deviceTypes, application>>
        rejected == {i \in 1..3 : IsRejected(props[i])}
    IN  IF rejected # {}
        THEN {Effect(Reject(props[i].error), lookups, devs) : i \in rejected}
        ELSE LET e == MoveChecked(devs, device.value, deviceTypes.value,
                                  application.value, nt)
             IN  {Effect(e.p, lookups \o e.sent, e.devices)}

(***************************************************************************)
(* The calls that act on devices.                                          *)
(***************************************************************************)
\* The uuid of the device with a given id in the stores the actions act on
UuidOfId(id) ==
    CHOOSE u \in FullUuids : Cardinality({v \in FullUuids : UuidCode(v) < UuidCode(u)}) = id - 1

ActionDevice(id) == MkDevice(id, UuidOfId(id))

ActionArgs ==
    {Num(i) : i \in 1..(MaxActionDevices + 1)}
        \cup {Str(s) : s \in UuidStrings \ {<<>>}}

\* Transports in which at most one of the given requests fails
NetsOne(fields) ==
    {NetOk} \cup {[NetOk EXCEPT ![f] = FALSE] : f \in fields}

\* A call that may write to the store
Acts(name, a, nt, e, callback) ==
    /\ op' = name
    /\ args' = a
    /\ net' = nt
    /\ promise' = e.p
    /\ cbCalls' = AsCallback(e.p, callback)
    /\ sent' = e.sent
    /\ devices' = e.devices
    /\ UNCHANGED <<osUpdateHelper, harness>>

Move ==
    /\ Idle
    /\ \E x \in ActionArgs : \E app \in AppArgs : \E a \in {<<x, app>>, <<x, app, Fn>>} :
       \E nt \in NetsOne({"pine", "app", "config", "pine2"}) :
       \E e \in move(devices, x, app, nt) :
            Acts("move", a, nt, e, Arg(a, 3))

InitMove ==
    /\ \E k \in 0..MaxActionDevices : devices = {ActionDevice(i) : i \in 1..k}
    /\ NoCall

NextMove == Move \/ Forget

SpecMove == InitMove /\ [][NextMove]_vars

(***************************************************************************)
(* Supervisor actions: ensureSupervisorCompatibility and the methods that  *)
(* proxy a request to the device's supervisor                              *)
(***************************************************************************)
MIN_SUPERVISOR_APPS_API == "1.8.0-alpha.0"

MIN_SUPERVISOR_MC_API == "7.0.0"

\* A prerelease identifier: numeric, or alphanumeric
NumId(n) == [num |-> TRUE, n |-> n, s |-> ""]
AlphaId(s) == [num |-> FALSE, n |-> 0, s |-> s]

SemVer(major, minor, patch, pre) ==
    [valid |-> TRUE, major |-> major, minor |-> minor, patch |-> patch, pre |-> pre]

\* new SemVer(version): the versions that occur, parsed; anything else
\* (a device that reported no supervisor version) is invalid
SemverParse(version) ==
    CASE version = "1.7.9" -> SemVer(1, 7, 9, <<>>)
      [] version = "1.8.0-alpha" -> SemVer(1, 8, 0, <<AlphaId("alpha")>>)
      [] version = "1.8.0-alpha.0" -> SemVer(1, 8, 0, <<AlphaId("alpha"), NumId(0)>>)
      [] version = "1.8.0-p1" -> SemVer(1, 8, 0, <<AlphaId("p1")>>)
      [] version = "7.0.0-rc.1" -> SemVer(7, 0, 0, <<AlphaId("rc"), NumId(1)>>)
      [] version = "7.0.0" -> SemVer(7, 0, 0, <<>>)
      [] OTHER -> [valid |-> FALSE, major |-> 0, minor |-> 0, patch |-> 0, pre |-> <<>>]

\* The ASCII order of the alphanumeric identifiers that occur
AlphaRank(str) ==
    CASE str = "alpha" -> 1
      [] str = "p1" -> 2
      [] str = "rc" -> 3
      [] OTHER -> 0

CompareInt(a, b) == IF a < b THEN -1 ELSE IF a > b THEN 1 ELSE 0

\* semver compareIdentifiers: numeric ones are lower than alphanumeric ones
compareIdentifiers(a, b) ==
    IF a.num /\ b.num THEN CompareInt(a.n, b.n)
    ELSE IF a.num THEN -1
    ELSE IF b.num THEN 1
    ELSE CompareInt(AlphaRank(a.s), AlphaRank(b.s))

\* SemVer.comparePre from identifier i on
RECURSIVE comparePreFrom(_, _, _)
comparePreFrom(a, b, i) ==
    IF i > Len(a) /\ i > Len(b) THEN 0
    ELSE IF i > Len(b) THEN 1
    ELSE IF i > Len(a) THEN -1
    ELSE IF a[i] = b[i] THEN comparePreFrom(a, b, i + 1)
    ELSE compareIdentifiers(a[i], b[i])

\* SemVer.comparePre: a version without prerelease is the higher one
comparePre(a, b) ==
    IF a.pre # <<>> /\ b.pre = <<>> THEN -1
    ELSE IF a.pre = <<>> /\ b.pre # <<>> THEN 1
    ELSE IF a.pre = <<>> /\ b.pre = <<>> THEN 0
    ELSE comparePreFrom(a.pre, b.pre, 1)

compareMain(a, b) ==
    IF a.major # b.major THEN CompareInt(a.major, b.major)
    ELSE IF a.minor # b.minor THEN CompareInt(a.minor, b.minor)
    ELSE CompareInt(a.patch, b.patch)

\* semver.lt on parsed versions
semverLt(a, b) ==
    IF compareMain(a, b) # 0 THEN compareMain(a, b) < 0 ELSE comparePre(a, b) < 0

IncompatibleSupervisor == "Error: Incompatible supervisor version"

\* What ensureSupervisorCompatibility throws: nothing (NoError), the
\* incompatibility, or the TypeError of semver for an invalid version
EnsureSupervisorCompatibilityMutant(version, minVersion) ==
    IF ~SemverParse(version).valid THEN Err("TypeError")
    ELSE IF compareMain(SemverParse(version), SemverParse(minVersion)) < 0
    THEN Err(IncompatibleSupervisor)
    ELSE NoError

ensureSupervisorCompatibility(version, minVersion) ==
    IF ~SemverParse(version).valid THEN Err("TypeError")
    ELSE IF semverLt(SemverParse(version), SemverParse(minVersion))
    THEN Err(IncompatibleSupervisor)
    ELSE NoError

\* request.send: answered with a status code
RequestSend(url, body, status) ==
    IF status = StatusOk THEN Fulfil("response") ELSE Reject(RequestError(status))

\* get(uuidOrId), ensureSupervisorCompatibility(..., minVersion), then the
\* request to the supervisor: the chain that getApplicationInfo,
\* startApplication, stopApplication, startService, stopService and
\* restartService share
supervisorCall(devs, uuidOrId, minVersion, url, nt) ==
    LET device == get(devs, uuidOrId,
                      {"id", "supervisor_version", "belongs_to__application"}, nt)
        thrown == ensureSupervisorCompatibility(device.value.supervisor_version,
                                                minVersion)
        body == [deviceId |-> device.value.id,
                 appId |-> device.value.belongs_to__application]
    IN  IF IsRejected(device) THEN Effect(device, getSent(uuidOrId), devs)
        ELSE IF thrown # NoError THEN Effect(Reject(thrown), getSent(uuidOrId), devs)
        ELSE Effect(RequestSend(url, body, nt.send),
                    getSent(uuidOrId) \o <<Req("request.send", url, body)>>, devs)

getApplicationInfo(devs, uuidOrId, nt) ==
    supervisorCall(devs, uuidOrId, MIN_SUPERVISOR_APPS_API, "/supervisor/v1/apps/:appId", nt)

startApplication(devs, uuidOrId, nt) ==
    supervisorCall(devs, uuidOrId, MIN_SUPERVISOR_APPS_API,
                   "/supervisor/v1/apps/:appId/start", nt)

stopApplication(devs, uuidOrId, nt) ==
    supervisorCall(devs, uuidOrId, MIN_SUPERVISOR_APPS_API,
                   "/supervisor/v1/apps/:appId/stop", nt)

startService(devs, uuidOrId, nt) ==
    supervisorCall(devs, uuidOrId, MIN_SUPERVISOR_MC_API,
                   "/supervisor/v2/applications/:appId/start-service", nt)

stopService(devs, uuidOrId, nt) ==
    supervisorCall(devs, uuidOrId, MIN_SUPERVISOR_MC_API,
                   "/supervisor/v2/applications/:appId/stop-service", nt)

restartService(devs, uuidOrId, nt) ==
    supervisorCall(devs, uuidOrId, MIN_SUPERVISOR_MC_API,
                   "/supervisor/v2/applications/:appId/restart-service", nt)

(***************************************************************************)
(* exports.reboot, shutdown, purge                                         *)
(***************************************************************************)
\* The catch handler on the supervisor request of reboot, shutdown, purge
CatchLockedMutant(p) ==
    IF IsRejected(p) /\ p.error.statusCode >= 400
    THEN Reject(Err("BalenaSupervisorLockedError"))
    ELSE p

CatchLocked(p) ==
    IF IsRejected(p) /\ p.error.statusCode = LOCKED_STATUS_CODE
    THEN Reject(Err("BalenaSupervisorLockedError"))
    ELSE p

\* util.isNotFoundResponse
isNotFoundResponse(err) == err.name = "BalenaRequestError" /\ err.statusCode = 404

\* .catch(isNotFoundResponse, treatAsMissingDevice(uuidOrId))
CatchNotFound(p) ==
    IF IsRejected(p) /\ isNotFoundResponse(p.error)
    THEN Reject(Err("BalenaDeviceNotFound"))
    ELSE p

\* getId: an id is used as it is, a uuid is looked up
getId(devs, uuidOrId, nt) ==
    IF isId(uuidOrId) THEN Fulfil(uuidOrId.n)
    ELSE LET device == get(devs, uuidOrId, {"id"}, nt) IN
         IF IsFulfilled(device) THEN Fulfil(device.value.id) ELSE device

getIdSent(uuidOrId) == IF isId(uuidOrId) THEN <<>> ELSE getSent(uuidOrId)

reboot(devs, uuidOrId, nt) ==
    LET deviceId == getId(devs, uuidOrId, nt)
        body == [deviceId |-> deviceId.value, appId |-> 0]
    IN  IF IsRejected(deviceId)
        THEN Effect(CatchNotFound(deviceId), getIdSent(uuidOrId), devs)
        ELSE Effect(CatchNotFound(CatchLocked(
                        RequestSend("/supervisor/v1/reboot", body, nt.send))),
                    getIdSent(uuidOrId)
                        \o <<Req("request.send", "/supervisor/v1/reboot", body)>>,
                    devs)

\* get(uuidOrId), then the request to the supervisor and its catch handler:
\* the chain that shutdown and purge share
lockedCall(devs, uuidOrId, url, nt) ==
    LET device == get(devs, uuidOrId, {"id", "belongs_to__application"}, nt)
        body == [deviceId |-> device.value.id,
                 appId |-> device.value.belongs_to__application]
    IN  IF IsRejected(device) THEN Effect(device, getSent(uuidOrId), devs)
        ELSE Effect(CatchLocked(RequestSend(url, body, nt.send)),
                    getSent(uuidOrId) \o <<Req("request.send", url, body)>>, devs)

shutdown(devs, uuidOrId, nt) == lockedCall(devs, uuidOrId, "/supervisor/v1/shutdown", nt)

purge(devs, uuidOrId, nt) == lockedCall(devs, uuidOrId, "/supervisor/v1/purge", nt)

\* The supervisor versions the devices report ("": none)
SupervisorVersions ==
    <<"", "1.7.9", "1.8.0-alpha", "1.8.0-alpha.0", "1.8.0-p1", "7.0.0-rc.1", "7.0.0">>

\* Transports for a call that looks a device up and sends one request
SendNets ==
    {NetOk, [NetOk EXCEPT !.pine = FALSE]}
        \cup {[NetOk EXCEPT !.send = c] : c \in ErrorStatusCodes}

GetApplicationInfo ==
    /\ Idle
    /\ \E x \in ActionArgs : \E a \in {<<x>>, <<x, Fn>>} : \E nt \in SendNets :
            Acts("getApplicationInfo", a, nt, getApplicationInfo(devices, x, nt), Arg(a, 2))

StartApplication ==
    /\ Idle
    /\ \E x \in ActionArgs : \E a \in {<<x>>, <<x, Fn>>} : \E nt \in SendNets :
            Acts("startApplication", a, nt, startApplication(devices, x, nt), Arg(a, 2))

StopApplication ==
    /\ Idle
    /\ \E x \in ActionArgs : \E a \in {<<x>>, <<x, Fn>>} : \E nt \in SendNets :
            Acts("stopApplication", a, nt, stopApplication(devices, x, nt), Arg(a, 2))

StartService ==
    /\ Idle
    /\ \E x \in ActionArgs : \E a \in {<<x, Num(1)>>, <<x, Num(1), Fn>>} :
       \E nt \in SendNets :
            Acts("startService", a, nt, startService(devices, x, nt), Arg(a, 3))

StopService ==
    /\ Idle
    /\ \E x \in ActionArgs : \E a \in {<<x, Num(1)>>, <<x, Num(1), Fn>>} :
       \E nt \in SendNets :
            Acts("stopService", a, nt, stopService(devices, x, nt), Arg(a, 3))

RestartService ==
    /\ Idle
    /\ \E x \in ActionArgs : \E a \in {<<x, Num(1)>>, <<x, Num(1), Fn>>} :
       \E nt \in SendNets :
            Acts("restartService", a, nt, restartService(devices, x, nt), Arg(a, 3))

Reboot ==
    /\ Idle
    /\ \E x \in ActionArgs : \E a \in CallForms(x) : \E nt \in SendNets :
            Acts("reboot", a, nt, reboot(devices, x, nt), findCallback(a))

Shutdown ==
    /\ Idle
    /\ \E x \in ActionArgs : \E a \in CallForms(x) : \E nt \in SendNets :
            Acts("shutdown", a, nt, shutdown(devices, x, nt), findCallback(a))

Purge ==
    /\ Idle
    /\ \E x \in ActionArgs : \E a \in {<<x>>, <<x, Fn>>} : \E nt \in SendNets :
            Acts("purge", a, nt, purge(devices, x, nt), Arg(a, 2))

InitSupervisor ==
    /\ \E shift \in 1..Len(SupervisorVersions) :
            devices =
                {[ActionDevice(i) EXCEPT !.supervisor_version =
                    SupervisorVersions[((i + shift) % Len(SupervisorVersions)) + 1]] :
                 i \in 1..MaxActionDevices}
    /\ NoCall

NextSupervisor ==
    \/ GetApplicationInfo
    \/ StartApplication
    \/ StopApplication
    \/ StartService
    \/ StopService
    \/ RestartService
    \/ Reboot
    \/ Shutdown
    \/ Purge
    \/ Forget

SpecSupervisor == InitSupervisor /\ [][NextSupervisor]_vars

(***************************************************************************)
(* OS updates: _checkOsUpdateTarget, startOsUpdate, getOsUpdateStatus      *)
(***************************************************************************)
\* The value of a property the resource does not carry
UndefinedProperty == "<undefined>"

\* What _checkOsUpdateTarget throws for a device and a target version:
\* nothing (NoError) or an Error.  hupAllowed: whether
\* hupActionHelper.getHUPActionType accepts the update
checkOsUpdateTarget(device, targetOsVersion, hupAllowed) ==
    IF device.uuid = <<>> THEN Err("Error: The uuid of the device is not available")
    ELSE IF ~device.is_online THEN Err("Error: The device is offline")
    ELSE IF device.os_version = ""
    THEN Err("Error: The current os version of the device is not available")
    ELSE IF device.device_type = ""
    THEN Err("Error: The device type of the device is not available")
    ELSE IF device.os_variant = UndefinedProperty
    THEN Err("Error: The os variant of the device is not available")
    ELSE IF ~hupAllowed THEN Err("Error: HUP action not available")
    ELSE NoError

\* osModel().getSupportedVersions(deviceType).versions
SupportedVersions(deviceType) ==
    CASE deviceType = "raspberrypi3" -> {"2.29.2+rev1.prod", "2.31.0+rev1.prod"}
      [] deviceType = "raspberry-pi" -> {"2.29.2+rev1.prod"}
      [] OTHER -> {}

\* The version a string denotes for bSemver.compare: two strings compare
\* equal (0) when they denote the same version, however it is spelled
BSemverKey(version) ==
    CASE version \in {"2.29.2+rev1.prod", "balenaOS 2.29.2+rev1.prod"} -> 2292
      [] version = "2.31.0+rev1.prod" -> 2310
      [] version = "2.44.0+rev1.prod" -> 2440
      [] OTHER -> 0

bSemverCompare(a, b) == CompareInt(BSemverKey(a), BSemverKey(b))

\* What a call that uses the OS update helper leaves behind
OsEffect(p, rq, cache) == [p |-> p, sent |-> rq, cache |-> cache]

\* getOsUpdateHelper(): memoized by once(), a rejection included.  The
\* first call fetches deviceUrlsBase from the configuration
getOsUpdateHelper(cache, nt) ==
    IF cache = "unset"
    THEN IF nt.config
         THEN OsEffect(Fulfil("osUpdateHelper"),
                       <<Req("config.getAll", "config", Undefined)>>, "ready")
         ELSE OsEffect(Reject(RequestError(500)),
                       <<Req("config.getAll", "config", Undefined)>>, "failed")
    ELSE IF cache = "ready" THEN OsEffect(Fulfil("osUpdateHelper"), <<>>, cache)
    ELSE OsEffect(Reject(RequestError(500)), <<>>, cache)

\* The request of the OS update helper's startOsUpdate / getOsUpdateStatus
HelperRequest(kind, uuid, data, status) ==
    IF status = StatusOk THEN Fulfil("action response")
    ELSE Reject(RequestError(status))

\* The steps of startOsUpdate after _checkOsUpdateTarget accepted the device
StartCheckedOsUpdateMutant(device, uuid, targetOsVersion, cache, nt) ==
    LET versions == <<Req("os.getSupportedVersions", device.device_type, Undefined)>>
        helper == getOsUpdateHelper(cache, nt)
        start == Req("osUpdateHelper.startOsUpdate", uuid, targetOsVersion)
    IN  IF ~nt.os THEN OsEffect(Reject(RequestError(500)), versions, cache)
        ELSE IF IsRejected(helper.p)
        THEN OsEffect(helper.p, versions \o helper.sent, helper.cache)
        ELSE OsEffect(HelperRequest("start", uuid, targetOsVersion, nt.helper),
                      versions \o helper.sent \o <<start>>, helper.cache)

StartCheckedOsUpdate(device, uuid, targetOsVersion, cache, nt) ==
    LET versions == <<Req("os.getSupportedVersions", device.device_type, Undefined)>>
        helper == getOsUpdateHelper(cache, nt)
        start == Req("osUpdateHelper.startOsUpdate", uuid, targetOsVersion)
    IN  IF ~nt.os THEN OsEffect(Reject(RequestError(500)), versions, cache)
        ELSE IF ~ \E v \in SupportedVersions(device.device_type) :
                    bSemverCompare(v, targetOsVersion) = 0
        THEN OsEffect(Reject(Err("BalenaInvalidParameterError")), versions, cache)
        ELSE IF IsRejected(helper.p)
        THEN OsEffect(helper.p, versions \o helper.sent, helper.cache)
        ELSE OsEffect(HelperRequest("start", uuid, targetOsVersion, nt.helper),
                      versions \o helper.sent \o <<start>>, helper.cache)

startOsUpdate(devs, uuid, targetOsVersion, cache, nt) ==
    LET found == get(devs, uuid,
                     {"device_type", "is_online", "os_version", "os_variant"}, nt)
        \* device.uuid = uuid
        device == [f \in DOMAIN found.value \cup {"uuid"} |->
                     IF f = "uuid" THEN uuid.s ELSE found.value[f]]
        thrown == checkOsUpdateTarget(device, targetOsVersion, nt.hup)
    IN  IF targetOsVersion = ""
        THEN OsEffect(Reject(Err("BalenaInvalidParameterError")), <<>>, cache)
        ELSE IF IsRejected(found) THEN OsEffect(found, getSent(uuid), cache)
        ELSE IF thrown # NoError THEN OsEffect(Reject(thrown), getSent(uuid), cache)
        ELSE LET e == StartCheckedOsUpdate(device, uuid, targetOsVersion, cache, nt)
             IN  OsEffect(e.p, getSent(uuid) \o e.sent, e.cache)

\* The catch handler of getOsUpdateStatus
CatchStatusErrorMutant(devs, uuid, p, nt) ==
    IF ~IsRejected(p) THEN OsEffect(p, <<>>, "")
    ELSE LET found == get(devs, uuid, {"id"}, nt) IN
         IF IsRejected(found) THEN OsEffect(found, getSent(uuid), "")
         ELSE OsEffect(p, getSent(uuid), "")

CatchStatusError(devs, uuid, p, nt) ==
    IF ~IsRejected(p) \/ p.error.statusCode # 400 THEN OsEffect(p, <<>>, "")
    ELSE LET found == get(devs, uuid, {"id"}, nt) IN
         IF IsRejected(found) THEN OsEffect(found, getSent(uuid), "")
         ELSE OsEffect(p, getSent(uuid), "")

getOsUpdateStatus(devs, uuid, cache, nt) ==
    LET helper == getOsUpdateHelper(cache, nt)
        status == Req("osUpdateHelper.getOsUpdateStatus", uuid, Undefined)
        asked == IF IsRejected(helper.p) THEN helper.p
                 ELSE HelperRequest("status", uuid, Undefined, nt.helper)
        caught == CatchStatusError(devs, uuid, asked, nt)
    IN  OsEffect(caught.p,
                 helper.sent \o (IF IsRejected(helper.p) THEN <<>> ELSE <<status>>)
                    \o caught.sent,
                 helper.cache)

\* The state the devices report, by turns
DeviceProfiles ==
    << [is_online |-> TRUE, os_version |-> "balenaOS 2.29.2+rev1", os_variant |-> "prod"],
       [is_online |-> FALSE, os_version |-> "balenaOS 2.29.2+rev1", os_variant |-> "prod"],
       [is_online |-> TRUE, os_version |-> "", os_variant |-> ""],
       [is_online |-> TRUE, os_version |-> "", os_variant |-> "prod"] >>

ProfiledDevice(id, shift) ==
    LET pr == DeviceProfiles[((id + shift) % Len(DeviceProfiles)) + 1] IN
    [ActionDevice(id) EXCEPT !.is_online = pr.is_online,
                             !.os_version = pr.os_version,
                             !.os_variant = pr.os_variant]

OsUuidArgs == {Str(s) : s \in UuidStrings}

TargetOsVersions ==
    {"", "2.29.2+rev1.prod", "balenaOS 2.29.2+rev1.prod", "2.31.0+rev1.prod",
     "2.44.0+rev1.prod"}

\* Transports for the OS update calls
OsNets ==
    NetsOne({"pine", "os", "hup", "config"})
        \cup {[NetOk EXCEPT !.helper = c] : c \in ErrorStatusCodes}
        \cup {[NetOk EXCEPT !.helper = 400, !.pine = FALSE]}

\* A call that uses the OS update helper
Updates(name, a, nt, e, callback) ==
    /\ op' = name
    /\ args' = a
    /\ net' = nt
    /\ promise' = e.p
    /\ cbCalls' = AsCallback(e.p, callback)
    /\ sent' = e.sent
    /\ osUpdateHelper' = e.cache
    /\ UNCHANGED <<devices, harness>>

StartOsUpdate ==
    /\ Idle
    /\ \E x \in OsUuidArgs : \E t \in TargetOsVersions :
       \E a \in {<<x, Str(t)>>, <<x, Str(t), Fn>>} : \E nt \in OsNets :
            Updates("startOsUpdate", a, nt,
                    startOsUpdate(devices, x, t, osUpdateHelper, nt), Arg(a, 3))

GetOsUpdateStatus ==
    /\ Idle
    /\ \E x \in OsUuidArgs : \E a \in {<<x>>, <<x, Fn>>} : \E nt \in OsNets :
            Updates("getOsUpdateStatus", a, nt,
                    getOsUpdateStatus(devices, x, osUpdateHelper, nt), Arg(a, 2))

\* deviceUrlsBase is given in the options (the helper needs no request) or
\* is to be fetched from the configuration
InitOsUpdate ==
    /\ \E shift \in 1..Len(DeviceProfiles) : \E k \in 0..MaxActionDevices :
            devices = {ProfiledDevice(i, shift) : i \in 1..k}
    /\ op = "none"
    /\ args = <<>>
    /\ net = NetOk
    /\ promise = Pending
    /\ cbCalls = <<>>
    /\ sent = <<>>
    /\ osUpdateHelper \in {"unset", "ready"}
    /\ harness = NotLoaded

NextOsUpdate == StartOsUpdate \/ GetOsUpdateStatus \/ Forget

SpecOsUpdate == InitOsUpdate /\ [][NextOsUpdate]_vars

(***************************************************************************)
(* Properties of the queries.                                              *)
(***************************************************************************)
\* The devices of the store a uuidOrId names: the one with that id, or
\* those whose uuid starts with it
Matching(devs, uuidOrId) ==
    IF uuidOrId.t = "number" THEN {d \in devs : d.id = uuidOrId.n}
    ELSE IF uuidOrId.t = "string"
         THEN {d \in devs : StartsWith(d.uuid, uuidOrId.s)}
         ELSE {}

\* C1: get with a uuid string fulfils with the device when exactly one
\* device's uuid starts with the string, rejects with BalenaDeviceNotFound
\* when none does and with BalenaAmbiguousDevice when several do.
C1_GetByUuid ==
    (op = "get" /\ args[1].t = "string" /\ net.pine) =>
        LET M == {d \in devices : StartsWith(d.uuid, args[1].s)} IN
        /\ Cardinality(M) = 1 =>
              /\ IsFulfilled(promise)
              /\ \E d \in M : promise.value.id = d.id /\ promise.value.uuid = d.uuid
        /\ M = {} => RejectedWith(promise, "BalenaDeviceNotFound")
        /\ Cardinality(M) > 1 => RejectedWith(promise, "BalenaAmbiguousDevice")

\* C1 witness: a non-empty prefix shared by two devices was looked up
C1_Witness ==
    /\ op = "get" /\ args[1].t = "string" /\ net.pine
    /\ args[1].s # <<>>
    /\ Cardinality({d \in devices : StartsWith(d.uuid, args[1].s)}) = 2
    /\ RejectedWith(promise, "BalenaAmbiguousDevice")

\* C2: get with a numeric id fulfils with the device that has exactly that
\* id, whatever the uuids are, and rejects with BalenaDeviceNotFound when no
\* device has that id.
C2_GetById ==
    (op = "get" /\ args[1].t = "number" /\ net.pine) =>
        IF \E d \in devices : d.id = args[1].n
        THEN /\ IsFulfilled(promise)
             /\ promise.value.id = args[1].n
             /\ promise.value \in devices
        ELSE RejectedWith(promise, "BalenaDeviceNotFound")

\* C2 witness: an id no device has was looked up while a device's uuid
\* starts with the digits of that id
C2_Witness ==
    /\ op = "get" /\ args[1].t = "number" /\ net.pine
    /\ ~ \E d \in devices : d.id = args[1].n
    /\ \E d \in devices : StartsWith(d.uuid, StringOf(args[1].n))
    /\ RejectedWith(promise, "BalenaDeviceNotFound")

\* C3 as claimed: has fulfils with a Boolean for every uuidOrId, true when a
\* device matches and false when none does.
C3_HasAlwaysBoolean ==
    (op = "has" /\ net.pine) =>
        /\ IsFulfilled(promise)
        /\ promise.value = (Matching(devices, args[1]) # {})

\* C3 amended: has fulfils true when exactly one device matches (a numeric
\* id names at most one) and false when none does; a uuid prefix that
\* several devices share rejects with BalenaAmbiguousDevice.
C3_HasUnlessAmbiguous ==
    (op = "has" /\ net.pine) =>
        LET M == Matching(devices, args[1]) IN
        IF Cardinality(M) > 1
        THEN RejectedWith(promise, "BalenaAmbiguousDevice")
        ELSE IsFulfilled(promise) /\ promise.value = (M # {})

\* C3 witness: has was asked about a uuid no device has and fulfilled false
C3_Witness ==
    /\ op = "has" /\ net.pine
    /\ args[1].t = "string"
    /\ devices # {}
    /\ Matching(devices, args[1]) = {}
    /\ IsFulfilled(promise) /\ promise.value = FALSE

\* C4 as claimed: a callback passed to getAllByApplication or
\* getAllByParentDevice is invoked exactly once, with the outcome of the
\* call, whether the lookup or the device query fails or both succeed.
C4_CallbackOnce ==
    (op \in {"getAllByApplication", "getAllByParentDevice"}
     /\ findCallback(args).t = "function") =>
        cbCalls = <<promise>>

\* C5 as claimed: a callback passed as the second argument of
\* tags.getAllByApplication is invoked exactly once with the outcome.
C5_TagsCallbackOnce ==
    (op = "tags.getAllByApplication" /\ Len(args) = 2 /\ args[2].t = "function") =>
        cbCalls = <<promise>>

(***************************************************************************)
(* Properties of the actions.                                              *)
(***************************************************************************)
\* Whether a request of a kind is among the requests of the last call
Sent(rq, kind) == \E i \in 1..Len(rq) : rq[i].req = kind

\* Whether a device of a type may move to an application of a type
TypesCompatible(deviceType, appType) ==
    \E o \in DeviceTypes : \E t \in DeviceTypes :
        /\ o.slug = deviceType
        /\ t.slug = appType
        /\ isDeviceTypeCompatibleWith(o, t)

\* C6: move patches the device's belongs_to__application to the target
\* application only when the device's type is compatible with the
\* application's; when it is not, move rejects with BalenaInvalidDeviceType,
\* issues no patch and leaves the store as it was.
C6_MoveOnlyCompatible ==
    [][op' = "move" =>
        LET M == Matching(devices, args'[1])
            A == AppMatches(args'[2])
            patched == Sent(sent', "pine.patch")
        IN  /\ patched =>
                /\ Cardinality(M) = 1 /\ Cardinality(A) = 1
                /\ \E d \in M : \E app \in A :
                    /\ TypesCompatible(d.device_type, app.device_type)
                    /\ sent'[Len(sent')].data =
                          [uuid |-> d.uuid, belongs_to__application |-> app.id]
                    /\ IsFulfilled(promise') =>
                          devices' = (devices \ {d}) \cup
                              {[d EXCEPT !.belongs_to__application = app.id]}
            /\ ~patched => devices' = devices
            /\ ~IsFulfilled(promise') => devices' = devices
            /\ (/\ Cardinality(M) = 1 /\ Cardinality(A) = 1
                /\ net'.pine /\ net'.app /\ net'.config
                /\ \E d \in M : \E app \in A :
                      ~TypesCompatible(d.device_type, app.device_type))
               => (RejectedWith(promise', "BalenaInvalidDeviceType") /\ ~patched)
    ]_vars

\* C6 witness: a move to an application of an incompatible type was refused
C6_Witness ==
    /\ op = "move" /\ net = NetOk
    /\ RejectedWith(promise, "BalenaInvalidDeviceType")
    /\ ~Sent(sent, "pine.patch")
    /\ \E d \in Matching(devices, args[1]) : \E app \in AppMatches(args[2]) :
          /\ app.device_type = "intel-nuc"
          /\ d.belongs_to__application # app.id

\* The supervisor versions that are lower than 1.8.0-alpha.0, and those
\* that are lower than 7.0.0, by semver
BelowAppsApi == {"1.7.9", "1.8.0-alpha"}
BelowMcApi == {"1.7.9", "1.8.0-alpha", "1.8.0-alpha.0", "1.8.0-p1", "7.0.0-rc.1"}

AppsApiOps == {"getApplicationInfo", "startApplication", "stopApplication"}
McApiOps == {"startService", "stopService", "restartService"}

\* C7: the methods of the apps API send their supervisor request only for a
\* supervisor_version not lower than 1.8.0-alpha.0, those of the services
\* API only for one not lower than 7.0.0; for a lower version the call
\* rejects with 'Incompatible supervisor version' and sends no request.
C7_SupervisorCompatibility ==
    (op \in AppsApiOps \cup McApiOps) =>
        LET M == Matching(devices, args[1])
            below == IF op \in AppsApiOps THEN BelowAppsApi ELSE BelowMcApi
        IN  /\ Sent(sent, "request.send") =>
                /\ Cardinality(M) = 1
                /\ \A d \in M : d.supervisor_version \notin below
            /\ (Cardinality(M) = 1 /\ net.pine
                /\ \A d \in M : d.supervisor_version \in below)
               => /\ RejectedWith(promise, IncompatibleSupervisor)
                  /\ ~Sent(sent, "request.send")

\* C7 witness: startApplication reached the supervisor of a device that
\* runs the prerelease 1.8.0-p1, which is lower than 1.8.0
C7_Witness ==
    /\ op = "startApplication"
    /\ Sent(sent, "request.send")
    /\ IsFulfilled(promise)
    /\ \E d \in Matching(devices, args[1]) : d.supervisor_version = "1.8.0-p1"

\* C8: reboot, shutdown and purge reject with BalenaSupervisorLockedError
\* exactly when their supervisor request fails with LOCKED_STATUS_CODE.
C8_LockedOnlyOnLockedStatus ==
    (op \in {"reboot", "shutdown", "purge"}) =>
        (RejectedWith(promise, "BalenaSupervisorLockedError")
            <=> (Sent(sent, "request.send") /\ net.send = LOCKED_STATUS_CODE))

\* C8 witness: a reboot met a supervisor that holds the update lock
C8_Witness ==
    /\ op = "reboot"
    /\ Sent(sent, "request.send")
    /\ net.send = LOCKED_STATUS_CODE
    /\ RejectedWith(promise, "BalenaSupervisorLockedError")

(***************************************************************************)
(* Properties of the OS update calls.                                      *)
(***************************************************************************)
StartSent == Sent(sent, "osUpdateHelper.startOsUpdate")

\* Whether a target version compares equal to a supported version of a
\* device's type
TargetSupported(d, target) ==
    \E v \in SupportedVersions(d.device_type) : BSemverKey(v) = BSemverKey(target)

\* C9, first part: the OS update helper's startOsUpdate is invoked only
\* after targetOsVersion was found non-empty, the device was found,
\* _checkOsUpdateTarget accepted it and targetOsVersion compared equal to a
\* supported version of the device's type, in this order; an empty
\* targetOsVersion rejects with BalenaInvalidParameterError before any
\* request.
C9_StartOnlyAfterChecks ==
    (op = "startOsUpdate") =>
        LET M == Matching(devices, args[1])
            target == args[2].s
        IN  /\ StartSent =>
                /\ target # ""
                /\ Cardinality(M) = 1
                /\ \A d \in M : d.is_online /\ net.hup /\ TargetSupported(d, target)
                /\ sent[1].req = "pine.get"
                /\ sent[2].req = "os.getSupportedVersions"
                /\ sent[Len(sent)].req = "osUpdateHelper.startOsUpdate"
            /\ target = "" =>
                /\ RejectedWith(promise, "BalenaInvalidParameterError")
                /\ sent = <<>>

\* C9 as claimed, second part: whenever targetOsVersion is not among the
\* supported versions of the device's type the call rejects with
\* BalenaInvalidParameterError (stated for a full uuid and a faultless
\* transport).
C9_UnsupportedAlwaysInvalidParameter ==
    (op = "startOsUpdate" /\ net = NetOk /\ Len(args[1].s) = UuidLen) =>
        LET M == Matching(devices, args[1]) IN
        (Cardinality(M) = 1 /\ \A d \in M : ~TargetSupported(d, args[2].s))
            => (RejectedWith(promise, "BalenaInvalidParameterError") /\ ~StartSent)

\* C9 amended: the first part, and a targetOsVersion that is not among the
\* supported versions rejects with BalenaInvalidParameterError when
\* _checkOsUpdateTarget accepted the device (a non-empty uuid, an online
\* device with a known OS version for which an update action exists); the
\* update is not started for an unsupported version in any case.
C9_UnsupportedAfterChecks ==
    /\ C9_StartOnlyAfterChecks
    /\ (op = "startOsUpdate" /\ net.pine /\ net.os) =>
        LET M == Matching(devices, args[1]) IN
        (Cardinality(M) = 1 /\ \A d \in M : ~TargetSupported(d, args[2].s))
            => /\ ~StartSent
               /\ (args[2].s # "" /\ args[1].s # <<>> /\ net.hup
                   /\ \A d \in M : d.is_online /\ d.os_version # "")
                  => RejectedWith(promise, "BalenaInvalidParameterError")

\* C9 witness: an update to a supported version, spelled differently from
\* the supported version it compares equal to, was started
C9_Witness ==
    /\ op = "startOsUpdate"
    /\ args[2].s = "balenaOS 2.29.2+rev1.prod"
    /\ StartSent
    /\ IsFulfilled(promise)

\* C10: when the status request fails with 400, getOsUpdateStatus looks the
\* device up, rejects with BalenaDeviceNotFound if no device has the uuid
\* and with the 400 error if one has; a failure with another status code
\* rejects with that error and no device is looked up.
C10_StatusErrorHandling ==
    (op = "getOsUpdateStatus" /\ Sent(sent, "osUpdateHelper.getOsUpdateStatus")) =>
        LET M == Matching(devices, args[1]) IN
        /\ net.helper = 400 =>
            /\ Sent(sent, "pine.get")
            /\ (net.pine /\ M = {}) => RejectedWith(promise, "BalenaDeviceNotFound")
            /\ (net.pine /\ Cardinality(M) = 1) =>
                    (IsRejected(promise) /\ promise.error = RequestError(400))
        /\ net.helper \notin {StatusOk, 400} =>
            /\ IsRejected(promise) /\ promise.error = RequestError(net.helper)
            /\ ~Sent(sent, "pine.get")
        /\ net.helper = StatusOk => (IsFulfilled(promise) /\ ~Sent(sent, "pine.get"))

\* C10 witness: the status request failed with 400 for a uuid no device
\* has, while there are devices
C10_Witness ==
    /\ op = "getOsUpdateStatus"
    /\ net.helper = 400
    /\ devices # {}
    /\ Len(args[1].s) = UuidLen
    /\ Matching(devices, args[1]) = {}
    /\ RejectedWith(promise, "BalenaDeviceNotFound")

(***************************************************************************)
(* Release tracking: isTrackingApplicationRelease, getTargetReleaseHash,   *)
(* pinToRelease and trackApplicationRelease.  A device's                   *)
(* should_be_running__release is the id of the release it is pinned to,    *)
(* or 0 (null) when it tracks its application.                             *)
(***************************************************************************)
\* The releases of the API: their commit, status and owning application
Releases ==
    {[id |-> 1, commit |-> <<"a">>, status |-> "success", belongs_to__application |-> 1],
     [id |-> 2, commit |-> <<"b">>, status |-> "failed", belongs_to__application |-> 1],
     [id |-> 3, commit |-> <<"b">>, status |-> "success", belongs_to__application |-> 1],
     [id |-> 4, commit |-> <<"c">>, status |-> "success", belongs_to__application |-> 2]}

\* application.should_be_running__release: application 1 targets release
\* 3, the other applications have no target release
AppTargetRelease(appId) == IF appId = 1 THEN 3 ELSE 0

\* $expand of a release navigation property: an array of at most one release
ExpandRelease(releaseId) ==
    IF \E r \in Releases : r.id = releaseId
    THEN <<CHOOSE r \in Releases : r.id = releaseId>>
    ELSE <<>>

\* $expand of owns__release with $filter {[property]: value, status:
\* 'success'}, $orderby created_at desc (ids grow with created_at), $top 1
OwnsRelease(appId, property, value) ==
    LET found == {r \in Releases :
                    /\ r.belongs_to__application = appId
                    /\ r.status = "success"
                    /\ IF property = "id" THEN r.id = value.n
                       ELSE r.commit = value.s}
    IN  IF found = {} THEN <<>>
        ELSE <<CHOOSE r \in found : \A q \in found : q.id <= r.id>>

IsTrackingApplicationReleaseMutant(devs, uuidOrId, nt) ==
    LET device == get(devs, uuidOrId, {"should_be_running__release"}, nt) IN
    IF IsRejected(device) THEN device
    ELSE Fulfil(device.value.should_be_running__release # 0)

isTrackingApplicationRelease(devs, uuidOrId, nt) ==
    LET device == get(devs, uuidOrId, {"should_be_running__release"}, nt) IN
    IF IsRejected(device) THEN device
    ELSE Fulfil(~(device.value.should_be_running__release # 0))

getTargetReleaseHash(devs, uuidOrId, nt) ==
    LET device == get(devs, uuidOrId,
                      {"id", "should_be_running__release", "belongs_to__application"}, nt)
    IN  IF IsRejected(device) THEN device
        ELSE LET should_be_running__release ==
                     ExpandRelease(device.value.should_be_running__release)
                 targetRelease ==
                     ExpandRelease(AppTargetRelease(device.value.belongs_to__application))
             IN  IF Len(should_be_running__release) > 0
                 THEN Fulfil(Str(should_be_running__release[1].commit))
                 ELSE IF Len(targetRelease) > 0
                      THEN Fulfil(Str(targetRelease[1].commit))
                      ELSE Fulfil(Undefined)

\* pine.patch of the device with an id.  The API refuses a body that refers
\* to a release that does not exist; a patch that matches no device changes
\* nothing and succeeds.
PinePatchById(devs, id, field, value, nt) ==
    IF ~nt.pine2 THEN Effect(Reject(RequestError(500)), <<>>, devs)
    ELSE IF field = "should_be_running__release" /\ value # 0
            /\ ExpandRelease(value) = <<>>
         THEN Effect(Reject(RequestError(400)), <<>>, devs)
         ELSE Effect(Fulfil(Str(<<"O", "K">>)), <<>>,
                     {IF d.id = id THEN [d EXCEPT ![field] = value] ELSE d : d \in devs})

\* The patch request and its outcome, after the requests already sent
Patched(devs, rq, deviceId, field, value, nt) ==
    LET e == PinePatchById(devs, deviceId, field, value, nt) IN
    Effect(e.p, rq \o <<Req("pine.patch", deviceId, [f \in {field} |-> value])>>,
           e.devices)

pinToRelease(devs, uuidOrId, fullReleaseHashOrId, nt) ==
    IF isId(uuidOrId) /\ isId(fullReleaseHashOrId)
    THEN Patched(devs, <<>>, uuidOrId.n, "should_be_running__release",
                 fullReleaseHashOrId.n, nt)
    ELSE LET releaseFilterProperty ==
                 IF isId(fullReleaseHashOrId) THEN "id" ELSE "commit"
             device == get(devs, uuidOrId, {"id", "belongs_to__application"}, nt)
         IN  IF IsRejected(device) THEN Effect(device, getSent(uuidOrId), devs)
             ELSE LET owns__release ==
                          OwnsRelease(device.value.belongs_to__application,
                                      releaseFilterProperty, fullReleaseHashOrId)
                  IN  IF owns__release = <<>>
                      THEN Effect(Reject(Err("BalenaReleaseNotFound")),
                                  getSent(uuidOrId), devs)
                      ELSE Patched(devs, getSent(uuidOrId), device.value.id,
                                   "should_be_running__release",
                                   owns__release[1].id, nt)

trackApplicationRelease(devs, uuidOrId, nt) ==
    LET deviceId == getId(devs, uuidOrId, nt) IN
    IF IsRejected(deviceId) THEN Effect(deviceId, getIdSent(uuidOrId), devs)
    ELSE Patched(devs, getIdSent(uuidOrId), deviceId.value,
                 "should_be_running__release", 0, nt)

\* A device of the stores the release methods act on
ReleaseDevice(id) ==
    [f \in DOMAIN ActionDevice(id) \cup {"should_be_running__release"} |->
        IF f = "should_be_running__release" THEN 0 ELSE ActionDevice(id)[f]]

ReleaseArgs ==
    {Num(i) : i \in 1..5} \cup {Str(<<"a">>), Str(<<"b">>), Str(<<"c">>), Str(<<"z">>)}

\* A call that reads the store and may be given a callback last
Reads(name, a, nt, p, rq) ==
    Returns(name, a, nt, Outcome(p, AsCallback(p, Arg(a, Len(a))), rq))

IsTrackingApplicationRelease ==
    /\ Idle
    /\ \E x \in ActionArgs : \E a \in {<<x>>, <<x, Fn>>} : \E nt \in NetsOne({"pine"}) :
          Reads("isTrackingApplicationRelease", a, nt,
                isTrackingApplicationRelease(devices, x, nt), getSent(x))

GetTargetReleaseHash ==
    /\ Idle
    /\ \E x \in ActionArgs : \E a \in {<<x>>, <<x, Fn>>} : \E nt \in NetsOne({"pine"}) :
          Reads("getTargetReleaseHash", a, nt,
                getTargetReleaseHash(devices, x, nt), getSent(x))

PinToRelease ==
    /\ Idle
    /\ \E x \in ActionArgs : \E r \in ReleaseArgs :
       \E a \in {<<x, r>>, <<x, r, Fn>>} : \E nt \in NetsOne({"pine", "pine2"}) :
          Acts("pinToRelease", a, nt, pinToRelease(devices, x, r, nt), Arg(a, 3))

TrackApplicationRelease ==
    /\ Idle
    /\ \E x \in ActionArgs : \E a \in {<<x>>, <<x, Fn>>} :
       \E nt \in NetsOne({"pine", "pine2"}) :
          Acts("trackApplicationRelease", a, nt,
               trackApplicationRelease(devices, x, nt), Arg(a, 2))

InitRelease ==
    /\ \E k \in 0..MaxActionDevices : devices = {ReleaseDevice(i) : i \in 1..k}
    /\ NoCall

NextRelease ==
    \/ IsTrackingApplicationRelease
    \/ GetTargetReleaseHash
    \/ PinToRelease
    \/ TrackApplicationRelease
    \/ Forget

SpecRelease == InitRelease /\ [][NextRelease]_vars

(***************************************************************************)
(* Properties of release tracking.                                         *)
(***************************************************************************)
\* The commit of the release a pinToRelease argument names
CommitOf(fullReleaseHashOrId) ==
    IF isId(fullReleaseHashOrId)
    THEN Str(ExpandRelease(fullReleaseHashOrId.n)[1].commit)
    ELSE fullReleaseHashOrId

\* The commit of the target release of the application of the device a
\* uuidOrId names, undefined when that application has none
AppTargetCommit(devs, uuidOrId) ==
    LET d == CHOOSE e \in Matching(devs, uuidOrId) : TRUE
        targetRelease == ExpandRelease(AppTargetRelease(d.belongs_to__application))
    IN  IF targetRelease = <<>> THEN Undefined ELSE Str(targetRelease[1].commit)

\* What a client reads from a device that tracks its application
ReadsTracking(devs, uuidOrId) ==
    /\ isTrackingApplicationRelease(devs, uuidOrId, NetOk) = Fulfil(TRUE)
    /\ getTargetReleaseHash(devs, uuidOrId, NetOk)
          = Fulfil(AppTargetCommit(devs, uuidOrId))

\* C11: once pinToRelease(device, release) has succeeded on a device of the
\* store, isTrackingApplicationRelease(device) fulfils false and
\* getTargetReleaseHash(device) fulfils the commit of the pinned release;
\* once a trackApplicationRelease(device) has succeeded, following the pin
\* or not, isTrackingApplicationRelease(device) fulfils true and
\* getTargetReleaseHash(device) fulfils the commit of the target release of
\* the device's application.
C11_PinThenTrack ==
    /\ (/\ op = "pinToRelease" /\ IsFulfilled(promise)
        /\ Cardinality(Matching(devices, args[1])) = 1)
       => /\ isTrackingApplicationRelease(devices, args[1], NetOk) = Fulfil(FALSE)
          /\ getTargetReleaseHash(devices, args[1], NetOk) = Fulfil(CommitOf(args[2]))
          /\ LET e == trackApplicationRelease(devices, args[1], NetOk) IN
                /\ IsFulfilled(e.p)
                /\ ReadsTracking(e.devices, args[1])
    /\ (/\ op = "trackApplicationRelease" /\ IsFulfilled(promise)
        /\ Cardinality(Matching(devices, args[1])) = 1)
       => ReadsTracking(devices, args[1])

\* C11 witness: a device was pinned to a release that is not the target of
\* its application, and tracking it again would change what it runs
C11_Witness ==
    /\ op = "pinToRelease" /\ IsFulfilled(promise)
    /\ \E d \in Matching(devices, args[1]) :
          /\ d.should_be_running__release # 0
          /\ d.should_be_running__release # AppTargetRelease(d.belongs_to__application)
          /\ AppTargetRelease(d.belongs_to__application) # 0

(***************************************************************************)
(* serviceVar.get, serviceVar.set and serviceVar.remove.  The              *)
(* device_service_environment_variable resources of a device are kept with *)
(* the device, each with its service_install, name and value.              *)
(***************************************************************************)
\* The services installed on a device
ServicesOf(deviceId) == IF deviceId % 2 = 1 THEN {1, 2} ELSE {1}

\* The id of the service_install of a service on a device
ServiceInstallId(deviceId, serviceId) == deviceId * 10 + serviceId

\* The service_install resources of the devices of a store
ServiceInstalls(devs) ==
    {si \in {[id |-> ServiceInstallId(d.id, s), device |-> d.id,
              uuid |-> d.uuid, service |-> s] : d \in devs, s \in {1, 2}} :
        si.service \in ServicesOf(si.device)}

\* String(value)
String(value) ==
    IF value.t = "string" THEN value
    ELSE IF value.t = "number" THEN Str(StringOf(value.n))
    ELSE Str(<<"x">>)

\* The variables of the device that the $filter {service_install: {device,
\* service}, name} selects
ServiceVarsOf(devs, deviceId, serviceId, key) ==
    {v \in UNION {d.device_service_environment_variable : d \in {e \in devs : e.id = deviceId}} :
        /\ serviceId.t = "number"
        /\ v.service_install = ServiceInstallId(deviceId, serviceId.n)
        /\ v.name = key.s}

\* serviceVar.get(uuidOrId, serviceId, key, callback)
serviceVarGet(devs, a, nt) ==
    LET callback == findCallback(a)
        device == get(devs, a[1], {"id"}, nt)
        rq == getSent(a[1])
        found == ServiceVarsOf(devs, device.value.id, a[2], a[3])
        p == IF IsRejected(device) THEN device
             ELSE IF ~nt.pine2 THEN Reject(RequestError(500))
             ELSE IF found = {} THEN Fulfil(Undefined)
             ELSE Fulfil(Str((CHOOSE v \in found : TRUE).value))
    IN  Outcome(p, AsCallback(p, callback),
                IF IsRejected(device) THEN rq
                ELSE rq \o <<Req("pine.get", "device_service_environment_variable",
                                 [device |-> device.value.id, service |-> a[2], name |-> a[3]])>>)

\* pine.upsert of a variable by its natural key (service_install, name)
PineUpsert(devs, serviceInstall, key, value) ==
    {IF d.id = serviceInstall.device
     THEN [d EXCEPT !.device_service_environment_variable =
              {v \in @ : ~(v.service_install = serviceInstall.id /\ v.name = key.s)}
                \cup {[service_install |-> serviceInstall.id, name |-> key.s,
                       value |-> value.s]}]
     ELSE d : d \in devs}

\* pine.get of service_install with $filter {device: deviceFilter, service}:
\* the device by its id, or by a uuid equal to uuidOrId
ServiceInstallsOf(devs, uuidOrId, serviceId) ==
    {si \in ServiceInstalls(devs) :
        /\ serviceId.t = "number" /\ si.service = serviceId.n
        /\ IF isId(uuidOrId) THEN si.device = uuidOrId.n
           ELSE si.uuid = uuidOrId.s}

\* serviceVar.set(uuidOrId, serviceId, key, value, callback)
serviceVarSet(devs, uuidOrId, serviceId, key, value, nt) ==
    LET serviceInstalls == ServiceInstallsOf(devs, uuidOrId, serviceId)
        lookup == <<Req("pine.get", "service_install",
                        [device |-> uuidOrId, service |-> serviceId])>>
    IN  IF ~nt.pine THEN Effect(Reject(RequestError(500)), lookup, devs)
        ELSE IF Cardinality(serviceInstalls) = 0
             THEN Effect(Reject(Err("BalenaServiceNotFound")), lookup, devs)
        ELSE IF Cardinality(serviceInstalls) > 1
             THEN Effect(Reject(Err("BalenaAmbiguousDevice")), lookup, devs)
        ELSE LET si == CHOOSE s \in serviceInstalls : TRUE
                 upsert == Req("pine.upsert", "device_service_environment_variable",
                               [service_install |-> si.id, name |-> key,
                                value |-> String(value)])
             IN  IF ~nt.pine2
                 THEN Effect(Reject(RequestError(500)), lookup \o <<upsert>>, devs)
                 ELSE Effect(Fulfil(Undefined), lookup \o <<upsert>>,
                             PineUpsert(devs, si, key, String(value)))

\* serviceVar.remove(uuidOrId, serviceId, key, callback)
serviceVarRemove(devs, uuidOrId, serviceId, key, nt) ==
    LET device == get(devs, uuidOrId, {"id"}, nt)
        gone == ServiceVarsOf(devs, device.value.id, serviceId, key)
        delete == Req("pine.delete", "device_service_environment_variable",
                      [device |-> device.value.id, service |-> serviceId, name |-> key])
    IN  IF IsRejected(device) THEN Effect(device, getSent(uuidOrId), devs)
        ELSE IF ~nt.pine2
             THEN Effect(Reject(RequestError(500)), getSent(uuidOrId) \o <<delete>>, devs)
             ELSE Effect(Fulfil(Str(<<"O", "K">>)), getSent(uuidOrId) \o <<delete>>,
                         {IF d.id = device.value.id
                          THEN [d EXCEPT !.device_service_environment_variable = @ \ gone]
                          ELSE d : d \in devs})

\* A device of the stores the serviceVar methods act on: no variable is set
ServiceDevice(id) ==
    [f \in DOMAIN ActionDevice(id) \cup {"device_service_environment_variable"} |->
        IF f = "device_service_environment_variable" THEN {} ELSE ActionDevice(id)[f]]

ServiceArgs == {Num(1), Num(2), Num(3)}
VarKeys == {Str(<<"V", "A", "R">>)}
VarValues == {Num(1), Str(<<"2">>)}

ServiceVarGet ==
    /\ Idle
    /\ \E x \in ActionArgs : \E s \in ServiceArgs : \E key \in VarKeys :
       \E a \in {<<x, s, key>>, <<x, s, key, Fn>>} :
       \E nt \in NetsOne({"pine", "pine2"}) :
          Returns("serviceVar.get", a, nt, serviceVarGet(devices, a, nt))

ServiceVarSet ==
    /\ Idle
    /\ \E x \in ActionArgs : \E s \in ServiceArgs : \E key \in VarKeys :
       \E value \in VarValues :
       \E a \in {<<x, s, key, value>>, <<x, s, key, value, Fn>>} :
       \E nt \in NetsOne({"pine", "pine2"}) :
          Acts("serviceVar.set", a, nt,
               serviceVarSet(devices, x, s, key, value, nt), Arg(a, 5))

ServiceVarRemove ==
    /\ Idle
    /\ \E x \in ActionArgs : \E s \in ServiceArgs : \E key \in VarKeys :
       \E a \in {<<x, s, key>>, <<x, s, key, Fn>>} :
       \E nt \in NetsOne({"pine", "pine2"}) :
          Acts("serviceVar.remove", a, nt,
               serviceVarRemove(devices, x, s, key, nt), Arg(a, 4))

InitServiceVar ==
    /\ \E k \in 0..MaxActionDevices : devices = {ServiceDevice(i) : i \in 1..k}
    /\ NoCall

NextServiceVar == ServiceVarGet \/ ServiceVarSet \/ ServiceVarRemove \/ Forget

SpecServiceVar == InitServiceVar /\ [][NextServiceVar]_vars

(***************************************************************************)
(* Properties of serviceVar.                                               *)
(***************************************************************************)
\* C12: for every uuidOrId that names a single device of the store (by its
\* id, its full uuid or a prefix of its uuid) on which service S is
\* installed, serviceVar.set(uuidOrId, S, key, value) succeeds and a
\* following serviceVar.get(uuidOrId, S, key) fulfils String(value); once a
\* following serviceVar.remove(uuidOrId, S, key) has succeeded,
\* serviceVar.get fulfils undefined.
C12_SetGetRemove ==
    (/\ op = "serviceVar.set" /\ net = NetOk
     /\ Cardinality(Matching(devices, args[1])) = 1
     /\ \E d \in Matching(devices, args[1]) : args[2].n \in ServicesOf(d.id))
    => /\ IsFulfilled(promise)
       /\ serviceVarGet(devices, <<args[1], args[2], args[3]>>, NetOk).p
             = Fulfil(String(args[4]))
       /\ LET e == serviceVarRemove(devices, args[1], args[2], args[3], NetOk) IN
             /\ IsFulfilled(e.p)
             /\ serviceVarGet(e.devices, <<args[1], args[2], args[3]>>, NetOk).p
                   = Fulfil(Undefined)

(***************************************************************************)
(* Local mode: enableLocalMode, disableLocalMode and isInLocalMode, with   *)
(* configVar.set and configVar.get of util/dependent-resource.js and       *)
(* checkLocalModeSupported of util/local-mode.js.  The                     *)
(* device_config_variable resources of a device are kept with the device.  *)
(***************************************************************************)
LOCAL_MODE_ENV_VAR == "RESIN_SUPERVISOR_LOCAL_MODE"

LOCAL_MODE_SUPPORT_PROPERTIES ==
    {"os_version", "os_variant", "supervisor_version", "last_connectivity_event"}

\* What checkLocalModeSupported throws for a device: nothing (NoError) or
\* an Error
checkLocalModeSupported(device) ==
    IF device.supervisor_version = "" \/ device.last_connectivity_event = ""
    THEN Err("Error: Device is not yet fully provisioned")
    ELSE IF device.os_version \notin {"balenaOS 2.29.2+rev1"}
    THEN Err("Error: Device OS version does not support local mode")
    ELSE IF device.supervisor_version \notin {"7.0.0", "7.0.0-rc.1"}
    THEN Err("Error: Device supervisor version does not support local mode")
    ELSE IF device.os_variant # "dev"
    THEN Err("Error: Local mode is only supported on development OS versions")
    ELSE NoError

\* getResourceId of configVarModel
getResourceId(devs, uuidOrId, nt) ==
    LET device == get(devs, uuidOrId, {"id"}, nt) IN
    IF IsFulfilled(device) THEN Fulfil(device.value.id) ELSE device

\* configVar.set(parentParam, key, value): a numeric parentParam is used as
\* the device's id without a lookup; the upsert of a variable of a device
\* that does not exist is refused by the API
configVarSet(devs, parentParam, key, value, nt) ==
    LET parentId == IF isId(parentParam) THEN Fulfil(parentParam.n)
                    ELSE getResourceId(devs, parentParam, nt)
        lookup == IF isId(parentParam) THEN <<>> ELSE getSent(parentParam)
        upsert == Req("pine.upsert", "device_config_variable",
                      [device |-> parentId.value, name |-> key, value |-> value])
    IN  IF IsRejected(parentId) THEN Effect(parentId, lookup, devs)
        ELSE IF ~nt.pine2
        THEN Effect(Reject(RequestError(500)), lookup \o <<upsert>>, devs)
        ELSE IF ~\E d \in devs : d.id = parentId.value
        THEN Effect(Reject(RequestError(400)), lookup \o <<upsert>>, devs)
        ELSE Effect(Fulfil(Undefined), lookup \o <<upsert>>,
                    {IF d.id = parentId.value
                     THEN [d EXCEPT !.device_config_variable =
                              {v \in @ : v.name # key}
                                \cup {[name |-> key, value |-> value]}]
                     ELSE d : d \in devs})

\* configVar.get(parentParam, key): the value of the variable, or undefined
configVarGet(devs, parentParam, key, nt) ==
    LET parentId == getResourceId(devs, parentParam, nt)
        found == {v \in UNION {d.device_config_variable :
                                  d \in {e \in devs : e.id = parentId.value}} :
                    v.name = key}
    IN  IF IsRejected(parentId) THEN parentId
        ELSE IF ~nt.pine2 THEN Reject(RequestError(500))
        ELSE IF found = {} THEN Fulfil(Undefined)
        ELSE Fulfil(Str((CHOOSE v \in found : TRUE).value))

EnableLocalModeMutant(devs, uuidOrId, nt) ==
    LET device == get(devs, uuidOrId, {"id"} \cup LOCAL_MODE_SUPPORT_PROPERTIES, nt) IN
    IF IsRejected(device) THEN Effect(device, getSent(uuidOrId), devs)
    ELSE LET e == configVarSet(devs, Num(device.value.id), LOCAL_MODE_ENV_VAR, <<"1">>, nt)
         IN  Effect(e.p, getSent(uuidOrId) \o e.sent, e.devices)

enableLocalMode(devs, uuidOrId, nt) ==
    LET selectedProps == {"id"} \cup LOCAL_MODE_SUPPORT_PROPERTIES
        device == get(devs, uuidOrId, selectedProps, nt)
    IN  IF IsRejected(device) THEN Effect(device, getSent(uuidOrId), devs)
        ELSE IF checkLocalModeSupported(device.value) # NoError
        THEN Effect(Reject(checkLocalModeSupported(device.value)),
                    getSent(uuidOrId), devs)
        ELSE LET e == configVarSet(devs, Num(device.value.id),
                                   LOCAL_MODE_ENV_VAR, <<"1">>, nt)
             IN  Effect(e.p, getSent(uuidOrId) \o e.sent, e.devices)

disableLocalMode(devs, uuidOrId, nt) ==
    configVarSet(devs, uuidOrId, LOCAL_MODE_ENV_VAR, <<"0">>, nt)

isInLocalMode(devs, uuidOrId, nt) ==
    LET value == configVarGet(devs, uuidOrId, LOCAL_MODE_ENV_VAR, nt) IN
    IF IsRejected(value) THEN value
    ELSE Fulfil(value.value = Str(<<"1">>))

\* What the devices report of themselves, by turns
LocalModeProfiles ==
    << [os_version |-> "balenaOS 2.29.2+rev1", os_variant |-> "dev",
        supervisor_version |-> "7.0.0", last_connectivity_event |-> "2019-05-13"],
       [os_version |-> "balenaOS 2.29.2+rev1", os_variant |-> "prod",
        supervisor_version |-> "7.0.0", last_connectivity_event |-> "2019-05-13"],
       [os_version |-> "Resin OS 1.26.0", os_variant |-> "dev",
        supervisor_version |-> "7.0.0", last_connectivity_event |-> "2019-05-13"],
       [os_version |-> "balenaOS 2.29.2+rev1", os_variant |-> "dev",
        supervisor_version |-> "1.7.9", last_connectivity_event |-> "2019-05-13"],
       [os_version |-> "balenaOS 2.29.2+rev1", os_variant |-> "dev",
        supervisor_version |-> "7.0.0", last_connectivity_event |-> ""] >>

\* A device of the stores the local mode methods act on: no config variable
\* is set
LocalModeDevice(id, shift) ==
    LET pr == LocalModeProfiles[((id + shift) % Len(LocalModeProfiles)) + 1] IN
    [f \in DOMAIN ActionDevice(id)
            \cup {"last_connectivity_event", "device_config_variable"} |->
        IF f = "device_config_variable" THEN {}
        ELSE IF f \in DOMAIN pr THEN pr[f]
        ELSE ActionDevice(id)[f]]

EnableLocalMode ==
    /\ Idle
    /\ \E x \in ActionArgs : \E a \in {<<x>>, <<x, Fn>>} :
       \E nt \in NetsOne({"pine", "pine2"}) :
          Acts("enableLocalMode", a, nt, enableLocalMode(devices, x, nt), Arg(a, 2))

DisableLocalMode ==
    /\ Idle
    /\ \E x \in ActionArgs : \E a \in {<<x>>, <<x, Fn>>} :
       \E nt \in NetsOne({"pine", "pine2"}) :
          Acts("disableLocalMode", a, nt, disableLocalMode(devices, x, nt), Arg(a, 2))

IsInLocalMode ==
    /\ Idle
    /\ \E x \in ActionArgs : \E a \in {<<x>>, <<x, Fn>>} :
       \E nt \in NetsOne({"pine", "pine2"}) :
          Acts("isInLocalMode", a, nt,
               Effect(isInLocalMode(devices, x, nt), getSent(x), devices), Arg(a, 2))

InitLocalMode ==
    /\ \E shift \in 1..Len(LocalModeProfiles) : \E k \in 0..MaxActionDevices :
            devices = {LocalModeDevice(i, shift) : i \in 1..k}
    /\ NoCall

NextLocalMode == EnableLocalMode \/ DisableLocalMode \/ IsInLocalMode \/ Forget

SpecLocalMode == InitLocalMode /\ [][NextLocalMode]_vars

(***************************************************************************)
(* Properties of local mode.                                               *)
(***************************************************************************)
\* The value of the local mode variable of a device, <<>> when it has none
LocalModeValue(d) ==
    IF \E v \in d.device_config_variable : v.name = LOCAL_MODE_ENV_VAR
    THEN (CHOOSE v \in d.device_config_variable : v.name = LOCAL_MODE_ENV_VAR).value
    ELSE <<>>

\* C13: enableLocalMode sends the upsert of the local mode variable, with
\* value '1', only for a device that checkLocalModeSupported accepts; when
\* it rejects the device, no upsert is sent and the store is left as it
\* was.  isInLocalMode fulfils true exactly when the variable of the device
\* has the value '1': it fulfils true after enableLocalMode succeeded,
\* false after disableLocalMode succeeded, and false for a device whose
\* variable was never set.
C13_LocalMode ==
    [][/\ op' = "enableLocalMode" =>
            LET M == Matching(devices, args'[1])
                written == Sent(sent', "pine.upsert")
            IN  /\ written =>
                    /\ Cardinality(M) = 1
                    /\ \E d \in M :
                        /\ checkLocalModeSupported(d) = NoError
                        /\ sent'[Len(sent')].data =
                              [device |-> d.id, name |-> LOCAL_MODE_ENV_VAR,
                               value |-> <<"1">>]
                /\ (\E d \in M : checkLocalModeSupported(d) # NoError)
                      => (~written /\ devices' = devices)
                /\ ~written => devices' = devices
                /\ IsFulfilled(promise') =>
                      isInLocalMode(devices', args'[1], NetOk) = Fulfil(TRUE)
       /\ (op' = "disableLocalMode" /\ IsFulfilled(promise')) =>
            isInLocalMode(devices', args'[1], NetOk) = Fulfil(FALSE)
       /\ (op' = "isInLocalMode" /\ IsFulfilled(promise')) =>
            /\ devices' = devices
            /\ \E d \in Matching(devices, args'[1]) :
                  promise'.value = (LocalModeValue(d) = <<"1">>)
       /\ (op = "none" /\ op' # "none" /\ Cardinality(Matching(devices, args'[1])) = 1
           /\ \A d \in Matching(devices, args'[1]) : LocalModeValue(d) = <<>>)
          => isInLocalMode(devices, args'[1], NetOk) = Fulfil(FALSE)
    ]_vars

\* C13 witness: isInLocalMode fulfilled true, which takes an enableLocalMode
\* that succeeded, while another device of the store is one that
\* checkLocalModeSupported rejects and has no variable
C13_Witness ==
    /\ op = "isInLocalMode" /\ promise = Fulfil(TRUE)
    /\ \E d \in devices :
          /\ checkLocalModeSupported(d) # NoError
          /\ d.device_config_variable = {}

(***************************************************************************)
(* Writes to one device: remove, rename, note and setCustomLocation.       *)
(***************************************************************************)
\* pine.delete of the devices with a uuid
PineDeleteByUuid(devs, uuid) == {d \in devs : d.uuid # uuid}

\* The request that follows get(uuidOrId, {$select: 'uuid'}) and what it
\* leaves behind: the devices as written when the API accepts it
WriteByUuid(devs, rq, kind, uuid, body, written, nt) ==
    LET request == Req(kind, [uuid |-> uuid], body) IN
    IF ~nt.pine2 THEN Effect(Reject(RequestError(500)), rq \o <<request>>, devs)
    ELSE Effect(Fulfil(Str(<<"O", "K">>)), rq \o <<request>>, written)

remove(devs, uuidOrId, nt) ==
    LET device == get(devs, uuidOrId, {"uuid"}, nt) IN
    IF IsRejected(device) THEN Effect(device, getSent(uuidOrId), devs)
    ELSE WriteByUuid(devs, getSent(uuidOrId), "pine.delete", device.value.uuid,
                     Undefined, PineDeleteByUuid(devs, device.value.uuid), nt)

RenameMutant(devs, uuidOrId, newName, nt) ==
    LET device == get(devs, uuidOrId, {"uuid"}, nt) IN
    IF IsRejected(device) /\ device.error.name # "BalenaAmbiguousDevice"
    THEN Effect(device, getSent(uuidOrId), devs)
    ELSE WriteByUuid(devs, getSent(uuidOrId), "pine.patch", uuidOrId.s,
                     [device_name |-> newName.s],
                     {IF StartsWith(d.uuid, uuidOrId.s)
                      THEN [d EXCEPT !.device_name = newName.s] ELSE d : d \in devs},
                     nt)

rename(devs, uuidOrId, newName, nt) ==
    LET device == get(devs, uuidOrId, {"uuid"}, nt) IN
    IF IsRejected(device) THEN Effect(device, getSent(uuidOrId), devs)
    ELSE WriteByUuid(devs, getSent(uuidOrId), "pine.patch", device.value.uuid,
                     [device_name |-> newName.s],
                     PinePatchByUuid(devs, device.value.uuid, "device_name", newName.s),
                     nt)

note(devs, uuidOrId, text, nt) ==
    LET device == get(devs, uuidOrId, {"uuid"}, nt) IN
    IF IsRejected(device) THEN Effect(device, getSent(uuidOrId), devs)
    ELSE WriteByUuid(devs, getSent(uuidOrId), "pine.patch", device.value.uuid,
                     [note |-> text.s],
                     PinePatchByUuid(devs, device.value.uuid, "note", text.s), nt)

\* A location object {latitude, longitude}
Location(latitude, longitude) ==
    [t |-> "object", n |-> 0, s |-> <<latitude, longitude>>]

\* setCustomLocation: reading a property of a location that is undefined
\* throws a TypeError in the handler, before the patch
setCustomLocation(devs, uuidOrId, location, nt) ==
    LET device == get(devs, uuidOrId, {"uuid"}, nt) IN
    IF IsRejected(device) THEN Effect(device, getSent(uuidOrId), devs)
    ELSE IF location.t = "undefined"
    THEN Effect(Reject(Err("TypeError")), getSent(uuidOrId), devs)
    ELSE LET custom_latitude == String(Num(location.s[1])).s
             custom_longitude == String(Num(location.s[2])).s
         IN  WriteByUuid(devs, getSent(uuidOrId), "pine.patch", device.value.uuid,
                 [custom_latitude |-> custom_latitude,
                  custom_longitude |-> custom_longitude],
                 PinePatchByUuid(
                     PinePatchByUuid(devs, device.value.uuid,
                                     "custom_latitude", custom_latitude),
                     device.value.uuid, "custom_longitude", custom_longitude),
                 nt)

\* A device of the stores these methods act on
WrittenDevice(id) ==
    [f \in DOMAIN ActionDevice(id)
            \cup {"device_name", "note", "custom_latitude", "custom_longitude"} |->
        IF f \in {"device_name", "note", "custom_latitude", "custom_longitude"}
        THEN <<>> ELSE ActionDevice(id)[f]]

NewNames == {Str(<<"n">>)}
Notes == {Str(<<"m">>)}
Locations == {Location(1, 2), Undefined}

Remove ==
    /\ Idle
    /\ \E x \in ActionArgs : \E a \in {<<x>>, <<x, Fn>>} :
       \E nt \in NetsOne({"pine", "pine2"}) :
          Acts("remove", a, nt, remove(devices, x, nt), Arg(a, 2))

Rename ==
    /\ Idle
    /\ \E x \in ActionArgs : \E newName \in NewNames :
       \E a \in {<<x, newName>>, <<x, newName, Fn>>} :
       \E nt \in NetsOne({"pine", "pine2"}) :
          Acts("rename", a, nt, rename(devices, x, newName, nt), Arg(a, 3))

Note ==
    /\ Idle
    /\ \E x \in ActionArgs : \E text \in Notes :
       \E a \in {<<x, text>>, <<x, text, Fn>>} :
       \E nt \in NetsOne({"pine", "pine2"}) :
          Acts("note", a, nt, note(devices, x, text, nt), Arg(a, 3))

SetCustomLocation ==
    /\ Idle
    /\ \E x \in ActionArgs : \E location \in Locations :
       \E a \in {<<x, location>>, <<x, location, Fn>>} :
       \E nt \in NetsOne({"pine", "pine2"}) :
          Acts("setCustomLocation", a, nt,
               setCustomLocation(devices, x, location, nt), Arg(a, 3))

InitWrite ==
    /\ \E k \in 0..MaxActionDevices : devices = {WrittenDevice(i) : i \in 1..k}
    /\ NoCall

NextWrite == Remove \/ Rename \/ Note \/ SetCustomLocation \/ Forget

SpecWrite == InitWrite /\ [][NextWrite]_vars

(***************************************************************************)
(* Properties of the writes to one device.                                 *)
(***************************************************************************)
WriteOps == {"remove", "rename", "note", "setCustomLocation"}

\* The devices as a successful call of a write method leaves d
WrittenAs(d, name, a) ==
    CASE name = "remove" -> {}
      [] name = "rename" -> {[d EXCEPT !.device_name = a[2].s]}
      [] name = "note" -> {[d EXCEPT !.note = a[2].s]}
      [] OTHER -> {[d EXCEPT !.custom_latitude = StringOf(a[2].s[1]),
                             !.custom_longitude = StringOf(a[2].s[2])]}

\* C14: remove, rename, note and setCustomLocation write only to the single
\* device that get(uuidOrId) resolves, which the request selects by its
\* full uuid; when get rejects (no device matches, or several match a uuid
\* prefix) no delete or patch request is sent and every device of the
\* store is as it was.
C14_WriteOnlyResolved ==
    [][op' \in WriteOps =>
        LET M == Matching(devices, args'[1])
            wrote == Sent(sent', "pine.delete") \/ Sent(sent', "pine.patch")
        IN  /\ wrote =>
                /\ Cardinality(M) = 1
                /\ \E d \in M :
                    /\ sent'[Len(sent')].target = [uuid |-> d.uuid]
                    /\ Len(d.uuid) = UuidLen
                    /\ devices' \in {devices,
                                     (devices \ {d}) \cup WrittenAs(d, op', args')}
                    /\ IsFulfilled(promise') =>
                          devices' = (devices \ {d}) \cup WrittenAs(d, op', args')
            /\ IsRejected(get(devices, args'[1], {"uuid"}, net')) =>
                  (~wrote /\ devices' = devices)
            /\ Cardinality(M) # 1 => (~wrote /\ devices' = devices)
            /\ ~wrote => devices' = devices
    ]_vars

\* C14 witness: a call that names a uuid prefix shared by two devices was
\* rejected and wrote nothing, in a store that an earlier call has written
C14_Witness ==
    /\ op \in WriteOps
    /\ RejectedWith(promise, "BalenaAmbiguousDevice")
    /\ ~Sent(sent, "pine.patch") /\ ~Sent(sent, "pine.delete")
    /\ \E d \in devices : d.device_name # <<>>
    /\ \E d \in devices : d.device_name = <<>>

(***************************************************************************)
(* The integration test harness (tests/integration/setup.coffee): the      *)
(* memoized getCredentials and teardown, the mocha before and after hooks  *)
(* and the SIGINT/SIGTERM handlers.  Each action is one turn of the event  *)
(* loop: a hook or a signal handler that runs, or a request that settles   *)
(* and the handlers chained on it.                                         *)
(***************************************************************************)
MaxSignals == 3     \* signals the process receives

\* The variables of the SDK's device model, which the harness leaves alone
sdkVars == <<devices, osUpdateHelper, op, args, net, promise, cbCalls, sent>>

EnvNames == {"TEST_USERNAME", "TEST_EMAIL", "TEST_PASSWORD"}

\* The module as loaded, before mocha runs a hook.  env: the variables of
\* the environment that are set
Loaded(env, isBrowser) ==
    [env |-> env,
     IS_BROWSER |-> isBrowser,
     shouldDeleteTestUser |-> FALSE,
     credentials |-> "none",        \* the user of exports.credentials
     getCredentials |-> "uncalled", \* the promise _.once keeps for getCredentials
     result |-> "none",             \* the user the credentials it fulfils with name
     teardown |-> "uncalled",       \* the promise _.once keeps for teardown
     loginWith |-> "none",          \* the user teardown logs in
     deleted |-> "none",            \* the user of the DELETE request
     hook |-> "loaded",             \* the hook mocha ran last
     received |-> "none",           \* the signal received last
     registers |-> 0,               \* calls of balena.auth.register
     runs |-> 0,                    \* runs of the body of teardown
     deletes |-> 0,                 \* DELETE requests sent
     signals |-> 0]

GetCredentialsMutant(h) ==
    [h EXCEPT !.registers = @ + 1, !.getCredentials = "registering"]

\* The body of getCredentials, up to the call of balena.auth.register
getCredentialsBody(h) ==
    IF \A name \in EnvNames : name \in h.env
    THEN [h EXCEPT !.getCredentials = "fulfilled", !.result = "env"]
    ELSE [h EXCEPT !.registers = @ + 1, !.getCredentials = "registering"]

\* getCredentials = _.once ...
getCredentials(h) ==
    IF h.getCredentials = "uncalled" THEN getCredentialsBody(h) ELSE h

\* The body of teardown, up to the call of balena.auth.login
teardownBody(h) ==
    IF ~h.shouldDeleteTestUser
    THEN [h EXCEPT !.runs = @ + 1, !.teardown = "fulfilled"]
    ELSE [h EXCEPT !.runs = @ + 1, !.teardown = "login",
                   !.loginWith = h.credentials]

TeardownMutant(h) == teardownBody(h)

\* teardown = _.once ...
teardown(h) ==
    IF h.teardown = "uncalled" THEN teardownBody(h) ELSE h

\* A request of teardown's chain fails: the catch handler swallows
\* 'Request error: Unauthorized', any other error rejects the promise
Fails(h, unauthorized) ==
    [h EXCEPT !.teardown = IF unauthorized THEN "fulfilled" ELSE "rejected"]

\* before -> getCredentials()
Before ==
    /\ harness.hook = "loaded"
    /\ harness' = [getCredentials(harness) EXCEPT !.hook = "before"]
    /\ UNCHANGED sdkVars

\* balena.auth.register settles: .tap sets shouldDeleteTestUser
RegisterSettles ==
    /\ harness.getCredentials = "registering"
    /\ \E ok \in BOOLEAN :
          harness' = IF ok
                     THEN [harness EXCEPT !.shouldDeleteTestUser = TRUE,
                                          !.getCredentials = "fulfilled",
                                          !.result = "autogenerated"]
                     ELSE [harness EXCEPT !.getCredentials = "rejected"]
    /\ UNCHANGED sdkVars

\* The then handler of the before hook: _.assign(exports.credentials, result)
BeforeThen ==
    /\ harness.hook = "before"
    /\ harness.getCredentials \in {"fulfilled", "rejected"}
    /\ harness' = [harness EXCEPT !.hook = "tests",
                                  !.credentials = harness.result]
    /\ UNCHANGED sdkVars

\* after teardown
After ==
    /\ harness.hook = "tests"
    /\ harness' = [teardown(harness) EXCEPT !.hook = "after"]
    /\ UNCHANGED sdkVars

\* process.on signalName, sigTearDown(signalName)
SigTearDown ==
    /\ ~harness.IS_BROWSER
    /\ harness.signals < MaxSignals
    /\ \E signalName \in {"SIGINT", "SIGTERM"} :
          harness' = [teardown(harness) EXCEPT !.signals = @ + 1,
                                               !.received = signalName]
    /\ UNCHANGED sdkVars

\* balena.auth.login settles: it succeeds only with the credentials of a user
LoginSettles ==
    /\ harness.teardown = "login"
    /\ \E ok \in BOOLEAN : \E unauthorized \in BOOLEAN :
          harness' = IF ok /\ harness.loginWith # "none"
                     THEN [harness EXCEPT !.teardown = "getUserId"]
                     ELSE Fails(harness, unauthorized)
    /\ UNCHANGED sdkVars

\* balena.auth.getUserId settles; its then handler resets
\* shouldDeleteTestUser and sends the DELETE request
GetUserIdSettles ==
    /\ harness.teardown = "getUserId"
    /\ \E ok \in BOOLEAN : \E unauthorized \in BOOLEAN :
          harness' = IF ok
                     THEN [harness EXCEPT !.shouldDeleteTestUser = FALSE,
                                          !.deletes = @ + 1,
                                          !.deleted = harness.loginWith,
                                          !.teardown = "delete"]
                     ELSE Fails(harness, unauthorized)
    /\ UNCHANGED sdkVars

\* The DELETE request settles; then balena.auth.logout
DeleteSettles ==
    /\ harness.teardown = "delete"
    /\ \E ok \in BOOLEAN : \E unauthorized \in BOOLEAN :
          harness' = IF ok THEN [harness EXCEPT !.teardown = "logout"]
                     ELSE Fails(harness, unauthorized)
    /\ UNCHANGED sdkVars

LogoutSettles ==
    /\ harness.teardown = "logout"
    /\ \E ok \in BOOLEAN : \E unauthorized \in BOOLEAN :
          harness' = IF ok THEN [harness EXCEPT !.teardown = "fulfilled"]
                     ELSE Fails(harness, unauthorized)
    /\ UNCHANGED sdkVars

InitHarness ==
    /\ \E env \in SUBSET EnvNames : \E isBrowser \in BOOLEAN :
          harness = Loaded(env, isBrowser)
    /\ devices = {}
    /\ osUpdateHelper = "unset"
    /\ op = "none"
    /\ args = <<>>
    /\ net = NetOk
    /\ promise = Pending
    /\ cbCalls = <<>>
    /\ sent = <<>>

NextHarness ==
    \/ Before
    \/ RegisterSettles
    \/ BeforeThen
    \/ After
    \/ SigTearDown
    \/ LoginSettles
    \/ GetUserIdSettles
    \/ DeleteSettles
    \/ LogoutSettles

SpecHarness == InitHarness /\ [][NextHarness]_vars

(***************************************************************************)
(* Properties of the test harness.                                         *)
(***************************************************************************)
\* C15: however often and in whatever order the after hook and the
\* SIGINT/SIGTERM handlers call teardown, its body runs at most once, and
\* the DELETE request for the test user is sent at most once.
C15_TeardownOnce ==
    /\ harness.runs <= 1
    /\ harness.deletes <= 1

\* C15 witness: the after hook and two signals called teardown, and one
\* DELETE request was sent
C15_Witness ==
    /\ harness.hook = "after"
    /\ harness.signals >= 2
    /\ harness.runs = 1
    /\ harness.deletes = 1

\* C16: a DELETE request is sent only for the user that a successful
\* balena.auth.register of this run autogenerated; with TEST_USERNAME,
\* TEST_EMAIL and TEST_PASSWORD all set no registration is attempted,
\* shouldDeleteTestUser stays false and no DELETE request is sent;
\* registration is attempted at most once.
C16_DeleteOnlyAutogenerated ==
    /\ harness.deletes > 0 =>
          /\ harness.registers = 1
          /\ harness.result = "autogenerated"
          /\ harness.deleted = "autogenerated"
    /\ harness.shouldDeleteTestUser => harness.result = "autogenerated"
    /\ (\A name \in EnvNames : name \in harness.env) =>
          /\ harness.registers = 0
          /\ ~harness.shouldDeleteTestUser
          /\ harness.deletes = 0
    /\ harness.registers <= 1

\* C16 witness: with only some of the variables set a user was
\* autogenerated and teardown deleted it
C16_Witness ==
    /\ harness.env = {"TEST_USERNAME", "TEST_EMAIL"}
    /\ harness.deleted = "autogenerated"
    /\ harness.teardown = "fulfilled"
    /\ ~harness.shouldDeleteTestUser

====
